---- MODULE Spec2Model ----
(***************************************************************************)
(* korekt-cli: the change collector of src/src/git-logic.js.               *)
(*                                                                         *)
(* Strings are sequences of one-character strings, so that split, trim,    *)
(* startsWith and the regular expressions of the source are computed on    *)
(* the characters as the JavaScript does.                                  *)
(***************************************************************************)
EXTENDS Integers, Sequences, FiniteSets, TLC

\* ------------------------------------------------------------------------
\* JavaScript values and string primitives
\* ------------------------------------------------------------------------

\* JavaScript null / undefined where a string is expected (no real string
\* equals them: every element of a real string is one character long).
NULL == <<"null">>
UNDEF == <<"undefined">>

NL == "\n"
TAB == "\t"

\* Truthiness of a string-or-null value: null, undefined and '' are falsy.
Truthy(s) == s # NULL /\ s # UNDEF /\ s # <<>>

Whitespace == {" ", NL, TAB}

StartsWith(s, p) == Len(s) >= Len(p) /\ SubSeq(s, 1, Len(p)) = p

EndsWith(s, p) == Len(s) >= Len(p) /\ SubSeq(s, Len(s) - Len(p) + 1, Len(s)) = p

\* Position of the first occurrence of the substring p in s at or after
\* position from, 0 when there is none.
IndexOf(s, p, from) ==
  LET hits == {i \in from..(Len(s) - Len(p) + 1) : SubSeq(s, i, i + Len(p) - 1) = p}
  IN IF hits = {} THEN 0 ELSE CHOOSE i \in hits : \A k \in hits : i <= k

\* String.prototype.split(sep) for a non-empty separator string: the pieces
\* between the occurrences of sep, met from left to right. The occurrences of a
\* one-character separator are its positions, taken all at once.
RECURSIVE Split(_, _)
Split(s, sep) ==
  IF Len(sep) = 1
    THEN LET cuts == <<0>> \o SelectSeq([i \in 1..Len(s) |-> i], LAMBDA i : s[i] = sep[1])
                          \o <<Len(s) + 1>>
         IN  [k \in 1..(Len(cuts) - 1) |-> SubSeq(s, cuts[k] + 1, cuts[k + 1] - 1)]
  ELSE LET i == IndexOf(s, sep, 1)
       IN IF i = 0 THEN <<s>>
          ELSE <<SubSeq(s, 1, i - 1)>> \o Split(SubSeq(s, i + Len(sep), Len(s)), sep)

\* Array.prototype.join(sep)
RECURSIVE Join(_, _)
Join(parts, sep) ==
  IF parts = <<>> THEN <<>>
  ELSE IF Len(parts) = 1 THEN parts[1]
  ELSE LET half == Len(parts) \div 2
       IN  Join(SubSeq(parts, 1, half), sep) \o sep
             \o Join(SubSeq(parts, half + 1, Len(parts)), sep)

\* String.prototype.trim
RECURSIVE TrimLeft(_)
TrimLeft(s) == IF s # <<>> /\ s[1] \in Whitespace THEN TrimLeft(Tail(s)) ELSE s

RECURSIVE TrimRight(_)
TrimRight(s) ==
  IF s # <<>> /\ s[Len(s)] \in Whitespace THEN TrimRight(SubSeq(s, 1, Len(s) - 1)) ELSE s

Trim(s) == TrimRight(TrimLeft(s))

\* .filter(Boolean) on a list of strings
FilterBoolean(list) == SelectSeq(list, LAMBDA l : l # <<>>)

\* parts[i] of a JavaScript array: undefined past the end
At(parts, i) == IF i <= Len(parts) THEN parts[i] ELSE UNDEF

\* ------------------------------------------------------------------------
\* truncateContent
\* ------------------------------------------------------------------------

DefaultMaxLines == 2000

TruncationMarker ==
  <<NL, NL, ".", ".", ".", " ", "[", "t", "r", "u", "n", "c", "a", "t", "e", "d", "]",
    " ", ".", ".", ".", NL, NL>>

\* lines.slice(0, n) for n >= 0
SliceHead(lines, n) == SubSeq(lines, 1, IF n < Len(lines) THEN n ELSE Len(lines))

\* lines.slice(-n): slice(-0) is slice(0), the whole array
SliceTail(lines, n) ==
  IF n = 0 THEN lines
  ELSE SubSeq(lines, (IF n < Len(lines) THEN Len(lines) - n ELSE 0) + 1, Len(lines))

\* A text of exactly maxLines lines is cut as well.
truncateContentStrict(content, maxLines) ==
  LET lines == Split(content, <<NL>>)
      halfMax == maxLines \div 2
  IN IF Len(lines) < maxLines THEN content
     ELSE Join(SliceHead(lines, halfMax), <<NL>>) \o TruncationMarker
            \o Join(SliceTail(lines, halfMax), <<NL>>)

truncateContent(content, maxLines) ==
  LET lines == Split(content, <<NL>>)
      halfMax == maxLines \div 2
      head == Join(SliceHead(lines, halfMax), <<NL>>)
      tail == Join(SliceTail(lines, halfMax), <<NL>>)
  IN IF Len(lines) <= maxLines THEN content
     ELSE head \o TruncationMarker \o tail

\* ------------------------------------------------------------------------
\* parseNameStatus
\* ------------------------------------------------------------------------

\* The similarity score is kept in the status.
parseLineKeepingScore(line) ==
  LET parts == Split(line, <<TAB>>)
  IN IF StartsWith(parts[1], <<"R">>) \/ StartsWith(parts[1], <<"C">>)
       THEN [status |-> parts[1], path |-> At(parts, 3), oldPath |-> At(parts, 2)]
     ELSE [status |-> parts[1], path |-> At(parts, 2), oldPath |-> At(parts, 2)]

parseLine(line) ==
  LET parts == Split(line, <<TAB>>)
      statusRaw == parts[1]
  IN IF StartsWith(statusRaw, <<"R">>)
       THEN [status |-> <<"R">>, path |-> At(parts, 3), oldPath |-> At(parts, 2)]
     ELSE IF StartsWith(statusRaw, <<"C">>)
       THEN [status |-> <<"C">>, path |-> At(parts, 3), oldPath |-> At(parts, 2)]
     ELSE [status |-> statusRaw, path |-> At(parts, 2), oldPath |-> At(parts, 2)]

parseNameStatus(output) ==
  LET lines == FilterBoolean(Split(output, <<NL>>))
  IN [i \in 1..Len(lines) |-> parseLine(lines[i])]

\* ------------------------------------------------------------------------
\* normalizeRepoUrl
\* ------------------------------------------------------------------------

HttpsScheme == <<"h", "t", "t", "p", "s", ":", "/", "/">>
DotGit == <<".", "g", "i", "t">>

AzureSshPrefix ==
  <<"g", "i", "t", "@", "s", "s", "h", ".", "d", "e", "v", ".", "a", "z", "u", "r", "e",
    ".", "c", "o", "m", ":", "v", "3", "/">>
AzureHost == <<"d", "e", "v", ".", "a", "z", "u", "r", "e", ".", "c", "o", "m">>
GitHubHost == <<"g", "i", "t", "h", "u", "b", ".", "c", "o", "m">>
GitLabHost == <<"g", "i", "t", "l", "a", "b", ".", "c", "o", "m">>
BitbucketHost == <<"b", "i", "t", "b", "u", "c", "k", "e", "t", ".", "o", "r", "g">>

\* Every position at which the substring p occurs in s.
Occurrences(s, p) == {i \in 1..(Len(s) - Len(p) + 1) : SubSeq(s, i, i + Len(p) - 1) = p}

\* The longest prefix of s that holds no newline (what a greedy .+ takes).
DotRun(s) ==
  LET i == IndexOf(s, <<NL>>, 1) IN IF i = 0 THEN s ELSE SubSeq(s, 1, i - 1)

\* ([^/]+)\/ at the start of s: the segment before the first '/', or NULL.
Segment(s) ==
  LET i == IndexOf(s, <<"/">>, 1) IN IF i <= 1 THEN NULL ELSE SubSeq(s, 1, i - 1)

AfterSegment(s) == SubSeq(s, IndexOf(s, <<"/">>, 1) + 1, Len(s))

\* /git@ssh\.dev\.azure\.com:v3\/([^/]+)\/([^/]+)\/(.+)/ tried at position i:
\* <<org, project, repo>> or <<>> when it does not match there.
AzureMatchAt(url, i) ==
  LET r1 == SubSeq(url, i + Len(AzureSshPrefix), Len(url))
      org == Segment(r1)
      r2 == AfterSegment(r1)
      project == Segment(r2)
      repo == DotRun(AfterSegment(r2))
  IN IF org = NULL THEN <<>>
     ELSE IF project = NULL THEN <<>>
     ELSE IF repo = <<>> THEN <<>>
     ELSE <<org, project, repo>>

\* /git@HOST:([^/]+)\/(.+?)(?:\.git)?$/ tried at position i: <<user, repo>> or <<>>.
SshMatchAt(url, host, i) ==
  LET r1 == SubSeq(url, i + Len(host) + 5, Len(url))
      user == Segment(r1)
      t == AfterSegment(r1)
  IN IF user = NULL THEN <<>>
     ELSE IF t = <<>> \/ IndexOf(t, <<NL>>, 1) # 0 THEN <<>>
     ELSE IF EndsWith(t, DotGit) /\ Len(t) > Len(DotGit)
       THEN <<user, SubSeq(t, 1, Len(t) - Len(DotGit))>>
     ELSE <<user, t>>

\* The leftmost match of an unanchored pattern: the match at the least position
\* where MatchAt yields one, <<>> when no position does.
SshMatch(url, host) ==
  LET hits == {i \in Occurrences(url, <<"g", "i", "t", "@">> \o host \o <<":">>) :
                 SshMatchAt(url, host, i) # <<>>}
  IN IF hits = {} THEN <<>>
     ELSE SshMatchAt(url, host, CHOOSE i \in hits : \A k \in hits : i <= k)

AzureMatch(url) ==
  LET hits == {i \in Occurrences(url, AzureSshPrefix) : AzureMatchAt(url, i) # <<>>}
  IN IF hits = {} THEN <<>>
     ELSE AzureMatchAt(url, CHOOSE i \in hits : \A k \in hits : i <= k)

\* The fallback returns the URL as it is.
normalizeRepoUrlKeepingSuffix(url) ==
  LET gh == SshMatch(url, GitHubHost)
      gl == SshMatch(url, GitLabHost)
      bb == SshMatch(url, BitbucketHost)
  IN IF AzureMatch(url) # <<>>
       THEN HttpsScheme \o AzureHost \o <<"/">> \o AzureMatch(url)[1] \o <<"/">>
              \o AzureMatch(url)[2] \o <<"/", "_", "g", "i", "t", "/">> \o AzureMatch(url)[3]
     ELSE IF gh # <<>> THEN HttpsScheme \o GitHubHost \o <<"/">> \o gh[1] \o <<"/">> \o gh[2]
     ELSE IF gl # <<>> THEN HttpsScheme \o GitLabHost \o <<"/">> \o gl[1] \o <<"/">> \o gl[2]
     ELSE IF bb # <<>>
       THEN HttpsScheme \o BitbucketHost \o <<"/">> \o bb[1] \o <<"/">> \o bb[2]
     ELSE url

normalizeRepoUrl(url) ==
  LET az == AzureMatch(url)
      gh == SshMatch(url, GitHubHost)
      gl == SshMatch(url, GitLabHost)
      bb == SshMatch(url, BitbucketHost)
  IN IF az # <<>>
       THEN HttpsScheme \o AzureHost \o <<"/">> \o az[1] \o <<"/">> \o az[2]
              \o <<"/", "_", "g", "i", "t", "/">> \o az[3]
     ELSE IF gh # <<>> THEN HttpsScheme \o GitHubHost \o <<"/">> \o gh[1] \o <<"/">> \o gh[2]
     ELSE IF gl # <<>> THEN HttpsScheme \o GitLabHost \o <<"/">> \o gl[1] \o <<"/">> \o gl[2]
     ELSE IF bb # <<>>
       THEN HttpsScheme \o BitbucketHost \o <<"/">> \o bb[1] \o <<"/">> \o bb[2]
     ELSE IF EndsWith(url, DotGit) THEN SubSeq(url, 1, Len(url) - Len(DotGit))
     ELSE url

\* ------------------------------------------------------------------------
\* shouldIgnoreFile
\* ------------------------------------------------------------------------

\* String.prototype.replace with a global pattern for the literal substring pat:
\* left to right, without rescanning what was substituted.
RECURSIVE ReplaceAll(_, _, _)
ReplaceAll(s, pat, rep) ==
  LET i == IndexOf(s, pat, 1)
  IN IF i = 0 THEN s
     ELSE SubSeq(s, 1, i - 1) \o rep \o ReplaceAll(SubSeq(s, i + Len(pat), Len(s)), pat, rep)

DoubleStarPlaceholder ==
  <<"_", "_", "_", "D", "O", "U", "B", "L", "E", "S", "T", "A", "R", "_", "_", "_">>
NoSlashRun == <<"[", "^", "/", "]", "*">>
AnyRun == <<".", "*">>
LeadingAnyDir == <<".", "*", "/">>
OptionalDir == <<"(", "?", ":", ".", "*", "/", ")", "?">>

\* A single * translated like **.
globToRegexSourceStarCrossingSlash(pattern) ==
  LET s1 == ReplaceAll(pattern, <<".">>, <<"\\", ".">>)
      s4 == ReplaceAll(s1, <<"*">>, AnyRun)
      s5 == ReplaceAll(s4, <<"?">>, <<".">>)
  IN IF StartsWith(s5, LeadingAnyDir)
       THEN OptionalDir \o SubSeq(s5, Len(LeadingAnyDir) + 1, Len(s5))
     ELSE s5

\* A leading **/ left as .*/, which needs a directory in front.
globToRegexSourceMandatoryDir(pattern) ==
  LET s1 == ReplaceAll(pattern, <<".">>, <<"\\", ".">>)
      s2 == ReplaceAll(s1, <<"*", "*">>, DoubleStarPlaceholder)
      s3 == ReplaceAll(s2, <<"*">>, NoSlashRun)
      s4 == ReplaceAll(s3, DoubleStarPlaceholder, AnyRun)
  IN ReplaceAll(s4, <<"?">>, <<".">>)

\* The source text of the regular expression built from a glob pattern.
globToRegexSource(pattern) ==
  LET s1 == ReplaceAll(pattern, <<".">>, <<"\\", ".">>)
      s2 == ReplaceAll(s1, <<"*", "*">>, DoubleStarPlaceholder)
      s3 == ReplaceAll(s2, <<"*">>, NoSlashRun)
      s4 == ReplaceAll(s3, DoubleStarPlaceholder, AnyRun)
      s5 == ReplaceAll(s4, <<"?">>, <<".">>)
  IN IF StartsWith(s5, LeadingAnyDir)
       THEN OptionalDir \o SubSeq(s5, Len(LeadingAnyDir) + 1, Len(s5))
     ELSE s5

\* One alternative of new RegExp(source), for the sources globToRegexSource builds
\* from patterns over letters, digits, '/', '-', '.', '*', '?' and '|': a sequence
\* of atoms.
RECURSIVE compileRegex(_)
compileRegex(src) ==
  IF src = <<>> THEN <<>>
  ELSE IF StartsWith(src, OptionalDir)
    THEN <<[t |-> "optdir", c |-> ""]>> \o compileRegex(SubSeq(src, Len(OptionalDir) + 1, Len(src)))
  ELSE IF StartsWith(src, NoSlashRun)
    THEN <<[t |-> "star", c |-> ""]>> \o compileRegex(SubSeq(src, Len(NoSlashRun) + 1, Len(src)))
  ELSE IF StartsWith(src, AnyRun)
    THEN <<[t |-> "dstar", c |-> ""]>> \o compileRegex(SubSeq(src, 3, Len(src)))
  ELSE IF src[1] = "\\" /\ Len(src) >= 2
    THEN <<[t |-> "lit", c |-> src[2]]>> \o compileRegex(SubSeq(src, 3, Len(src)))
  ELSE IF src[1] = "."
    THEN <<[t |-> "any", c |-> ""]>> \o compileRegex(Tail(src))
  ELSE <<[t |-> "lit", c |-> src[1]]>> \o compileRegex(Tail(src))

Drop(s, k) == SubSeq(s, k + 1, Len(s))

\* Whether the atoms match the whole of s.
RECURSIVE regexMatches(_, _)
regexMatches(atoms, s) ==
  IF atoms = <<>> THEN s = <<>>
  ELSE LET a == atoms[1]
           rest == Tail(atoms)
       IN CASE a.t = "lit" -> s # <<>> /\ s[1] = a.c /\ regexMatches(rest, Tail(s))
            [] a.t = "any" -> s # <<>> /\ s[1] # NL /\ regexMatches(rest, Tail(s))
            [] a.t = "star" ->
                 \E k \in 0..Len(s) :
                   /\ \A j \in 1..k : s[j] # "/"
                   /\ regexMatches(rest, Drop(s, k))
            [] a.t = "dstar" ->
                 \E k \in 0..Len(s) :
                   /\ \A j \in 1..k : s[j] # NL
                   /\ regexMatches(rest, Drop(s, k))
            [] a.t = "optdir" ->
                 \/ regexMatches(rest, s)
                 \/ \E k \in 1..Len(s) :
                      /\ s[k] = "/"
                      /\ \A j \in 1..(k - 1) : s[j] # NL
                      /\ regexMatches(rest, Drop(s, k))

\* regex.test(v) converts its argument to a string first.
toStringArg(v) ==
  IF v = UNDEF THEN <<"u", "n", "d", "e", "f", "i", "n", "e", "d">>
  ELSE IF v = NULL THEN <<"n", "u", "l", "l">>
  ELSE v

\* regex.test(s) for the expression with the given source: some alternative (the
\* source is cut at each '|', which globToRegexSource leaves as it is) matches
\* some stretch of s, from the start of s when the alternative begins with '^' and
\* to its end when it ends with '$'.
regexTest(source, s) ==
  LET alts == Split(source, <<"|">>)
  IN \E a \in 1..Len(alts) :
       LET fromStart == StartsWith(alts[a], <<"^">>)
           toEnd == EndsWith(alts[a], <<"$">>)
           body == SubSeq(alts[a], IF fromStart THEN 2 ELSE 1,
                          IF toEnd THEN Len(alts[a]) - 1 ELSE Len(alts[a]))
       IN \E i \in 0..Len(s) :
            \E j \in i..Len(s) :
              /\ fromStart => i = 0
              /\ toEnd => j = Len(s)
              /\ regexMatches(compileRegex(body), SubSeq(s, i + 1, j))

\* patterns is [isNull |-> BOOLEAN, items |-> sequence of glob strings]
shouldIgnoreFile(filePath, patterns) ==
  IF patterns.isNull \/ Len(patterns.items) = 0 THEN FALSE
  ELSE \E i \in 1..Len(patterns.items) :
         regexTest(<<"^">> \o globToRegexSource(patterns.items[i]) \o <<"$">>,
                   toStringArg(filePath))

\* ------------------------------------------------------------------------
\* getContributors: the aggregation of the author log
\* ------------------------------------------------------------------------

\* A map whose entry takes the name of every line that carries its email.
RECURSIVE countAuthorsKeepingLastName(_, _)
countAuthorsKeepingLastName(lines, acc) ==
  IF lines = <<>> THEN acc
  ELSE LET parts == Split(lines[1], <<"|">>)
           email == parts[1]
           name == IF Truthy(At(parts, 2)) THEN At(parts, 2) ELSE email
           known == {i \in 1..Len(acc) : acc[i].email = email}
       IN IF ~Truthy(email) THEN countAuthorsKeepingLastName(Tail(lines), acc)
          ELSE IF known = {}
            THEN countAuthorsKeepingLastName(Tail(lines),
                   Append(acc, [email |-> email, name |-> name, commits |-> 1]))
          ELSE countAuthorsKeepingLastName(Tail(lines),
                 [i \in 1..Len(acc) |->
                    IF i \in known
                      THEN [acc[i] EXCEPT !.commits = @ + 1, !.name = name]
                    ELSE acc[i]])

\* contributorMap after the lines seen so far, in insertion order.
RECURSIVE countAuthors(_, _)
countAuthors(lines, acc) ==
  IF lines = <<>> THEN acc
  ELSE LET parts == Split(lines[1], <<"|">>)
           email == parts[1]
           name == At(parts, 2)
           known == {i \in 1..Len(acc) : acc[i].email = email}
       IN IF ~Truthy(email) THEN countAuthors(Tail(lines), acc)
          ELSE IF known = {}
            THEN countAuthors(Tail(lines),
                   Append(acc, [email |-> email,
                                name |-> IF Truthy(name) THEN name ELSE email,
                                commits |-> 1]))
          ELSE countAuthors(Tail(lines),
                 [i \in 1..Len(acc) |->
                    IF i \in known THEN [acc[i] EXCEPT !.commits = @ + 1] ELSE acc[i]])

\* A sort that puts a contributor in front of those with as many commits.
RECURSIVE insertByCommitsUnstable(_, _)
insertByCommitsUnstable(sorted, c) ==
  IF sorted = <<>> THEN <<c>>
  ELSE IF sorted[1].commits > c.commits
    THEN <<sorted[1]>> \o insertByCommitsUnstable(Tail(sorted), c)
  ELSE <<c>> \o sorted

\* Array.prototype.sort((a, b) => b.commits - a.commits): stable, descending.
RECURSIVE insertByCommits(_, _)
insertByCommits(sorted, c) ==
  IF sorted = <<>> THEN <<c>>
  ELSE IF sorted[1].commits >= c.commits
    THEN <<sorted[1]>> \o insertByCommits(Tail(sorted), c)
  ELSE <<c>> \o sorted

RECURSIVE sortByCommits(_)
sortByCommits(list) ==
  IF list = <<>> THEN <<>>
  ELSE insertByCommits(sortByCommits(SubSeq(list, 1, Len(list) - 1)), list[Len(list)])

EmptyContributors == [author_email |-> NULL, author_name |-> NULL, contributors |-> <<>>]

contributorsFromLog(authorOutput) ==
  IF Trim(authorOutput) = <<>> THEN EmptyContributors
  ELSE LET lines == FilterBoolean(Split(Trim(authorOutput), <<NL>>))
           contributors == sortByCommits(countAuthors(lines, <<>>))
       IN IF contributors = <<>> THEN EmptyContributors
          ELSE [author_email |-> contributors[1].email,
                author_name |-> contributors[1].name,
                contributors |-> contributors]

\* ------------------------------------------------------------------------
\* The collector: state of one call of runLocalReview or runUncommittedReview
\* ------------------------------------------------------------------------

VARIABLES
  fn,               \* which exported function was called
  targetBranch,     \* runLocalReview's first argument
  ignorePatterns,   \* runLocalReview's second argument
  mode,             \* runUncommittedReview's argument
  includeUntracked, \* the third value its caller hands over, options.untracked
  pc,               \* the await the call is suspended at
  repoUrl, branchName, repoRootPath,
  targetBranchRef, mergeBase, commitMessages,
  nameStatusOutput, fileList, idx, diff, changedFiles,
  reflogOutput,     \* stdout of the reflog command, when it ran
  stagedStatus,     \* what `git diff --cached --name-status` prints in this repository
  unstagedStatus,   \* what `git diff --name-status` prints in this repository
  untrackedFiles,   \* what `git ls-files --others --exclude-standard` prints in it
  cmds,             \* every git command execa was asked to run, with its outcome
  result,           \* what the call returned
  cli,              \* the kk command line being served, when the CLI made the call
  exitCode,         \* the exit status of the kk process
  io,               \* what the kk process wrote, asked and sent, in order
  call,             \* a direct call of one of the exported pure functions
  returned          \* the value that call returned

vars ==
  <<fn, targetBranch, ignorePatterns, mode, pc, repoUrl, branchName, repoRootPath,
    targetBranchRef, mergeBase, commitMessages, nameStatusOutput, fileList, idx, diff,
    changedFiles, reflogOutput, stagedStatus, unstagedStatus, cmds, result,
    cli, exitCode, io, call, returned, includeUntracked, untrackedFiles>>

arguments == <<fn, targetBranch, ignorePatterns, mode, includeUntracked>>
repository == <<stagedStatus, unstagedStatus, untrackedFiles>>
kk == <<cli, exitCode, io>>
unit == <<call, returned>>

\* -- bounds and inputs ---------------------------------------------------

\* Longest name-status listing the git stub answers with.
MaxFiles == 3

OriginSlash == <<"o", "r", "i", "g", "i", "n", "/">>
Main == <<"m", "a", "i", "n">>
HeadRef == <<"H", "E", "A", "D">>
RangeToHead == <<".", ".", "H", "E", "A", "D">>
EndOfCommit == <<"-", "-", "-", "E", "O", "C", "-", "-", "-">>

TargetBranches == {NULL, <<>>, Main, OriginSlash \o Main}

LockGlob == <<"*", ".", "l", "o", "c", "k">>
DistGlob == <<"d", "/", "*", "*">>

IgnorePatternLists ==
  { [isNull |-> TRUE, items |-> <<>>],
    [isNull |-> FALSE, items |-> <<>>],
    [isNull |-> FALSE, items |-> <<LockGlob, DistGlob>>] }

Modes == {"staged", "unstaged", "all"}

Hash1 == [i \in 1..40 |-> "a"]
Hash2 ==
  <<"5", "1", "0", "5", "7", "2", "b", "c", "5", "1", "9", "7", "7", "8", "8", "7", "7",
    "0", "0", "0", "4", "d", "0", "d", "0", "5", "8", "5", "8", "2", "2", "a", "d", "a",
    "b", "0", "1", "2", "8", "f">>
ReflogCommit == <<" ", "f", "@", "{", "0", "}", ":", " ", "c", "o", "m", "m", "i", "t">>
ReflogCreated == <<" ", "f", "@", "{", "1", "}", ":", " ", "b", "r", "a", "n", "c", "h">>

\* What `git reflog show --no-abbrev-commit` may print: one or two entries, an
\* empty listing, a last line with an abbreviated hash, a last line whose first
\* forty characters are not all lowercase hex, and a last line that is empty.
ReflogOutputs ==
  { Hash1 \o ReflogCommit \o <<NL>> \o Hash2 \o ReflogCreated,
    Hash2 \o ReflogCreated,
    <<>>,
    Hash1 \o ReflogCommit \o <<NL>> \o SubSeq(Hash2, 1, 7) \o ReflogCreated,
    Hash1 \o ReflogCommit \o <<NL>> \o SubSeq(Hash2, 1, 39) \o <<"G">> \o ReflogCreated,
    Hash1 \o ReflogCommit \o <<NL, NL>> }

RepoUrlOutputs ==
  { <<"g", "i", "t", "@", "g", "i", "t", "h", "u", "b", ".", "c", "o", "m", ":", "u", "/",
      "r", ".", "g", "i", "t">> }
BranchOutputs == { <<"f", "e", "a", "t">> }
RootOutputs == { <<"/", "r">> }
MergeBaseOutputs == { <<"a", "b", "c", "1", "2", "3", "4">> }
LogOutputs ==
  { <<"f", "i", "x", ":", " ", "a", "-", "-", "-", "E", "O", "C", "-", "-", "-", NL,
      "f", "e", "a", "t", "-", "-", "-", "E", "O", "C", "-", "-", "-">> }
DiffOutputs == { <<"d", "i", "f", "f">> }
ShowOutputs == { <<"o", "l", "d">> }
AuthorLogOutputs ==
  { <<"a", "@", "x", "|", "A", "n", NL, "b", "@", "x", "|", "B", "o", NL,
      "b", "@", "x", "|", "B">>,
    <<>> }

\* Lines a name-status listing is made of: a modification, an addition, a rename
\* away from a path the globs match, a deletion below d/, a copy onto a path the
\* globs match.
StatusLines ==
  << <<"M", TAB, "a", ".", "j", "s">>,
     <<"A", TAB, "y", ".", "l", "o", "c", "k">>,
     <<"R", "0", "9", "5", TAB, "o", ".", "l", "o", "c", "k", TAB, "n", ".", "j", "s">>,
     <<"D", TAB, "d", "/", "x", "/", "c", ".", "j", "s">>,
     <<"C", "1", "0", "0", TAB, "a", ".", "j", "s", TAB, "b", ".", "l", "o", "c", "k">> >>

\* The lines of StatusLines whose index is in S, in listing order.
RECURSIVE PickLines(_, _)
PickLines(S, from) ==
  IF from > Len(StatusLines) THEN <<>>
  ELSE (IF from \in S THEN <<StatusLines[from]>> ELSE <<>>) \o PickLines(S, from + 1)

NameStatusOutputs ==
  { Join(PickLines(S, 1), <<NL>>) :
      S \in {T \in SUBSET (1..Len(StatusLines)) : Cardinality(T) <= MaxFiles} }
    \cup { <<NL>> }

\* The index and the working tree of the repository an uncommitted review runs
\* in: staged changes among the first three lines, unstaged changes among the
\* modification and the deletion (a.js may be changed in both).
StagedStatuses ==
  { Join(PickLines(S, 1), <<NL>>) :
      S \in {T \in SUBSET {1, 2, 3} : Cardinality(T) <= MaxFiles} }
UnstagedStatuses ==
  { Join(PickLines(S, 1), <<NL>>) : S \in SUBSET {1, 4} } \cup { <<NL>> }

\* The untracked files of the working tree: none, or u.js, which holds WorkingCopy.
UntrackedListings == { <<>>, <<"u", ".", "j", "s">> }
WorkingCopy == <<"x", NL, "y">>

\* -- return values -------------------------------------------------------

Pending == [kind |-> "pending", payload |-> <<>>]
ReturnNull == [kind |-> "null", payload |-> <<>>]
ReturnPayload(p) == [kind |-> "payload", payload |-> <<p>>]

\* -- pieces of the two functions ------------------------------------------

\* A catch block that rethrows instead of returning.
CatchBlockRethrows == [kind |-> "thrown", payload |-> <<>>]

\* A catch block that hands back what was collected before the failure.
CatchBlockReturnsPartial == ReturnPayload([changed_files |-> changedFiles])

\* The catch block at the end of each function: log, return null.
CatchBlock == ReturnNull

\* A prefix test that never recognises a remote-tracking name.
isRemoteRefNever(target) == FALSE

\* targetBranch.startsWith('origin/')
isRemoteRef(target) == StartsWith(target, OriginSlash)

\* A verification whose failure is swallowed.
pcAfterVerifyIgnoringFailure(ok, target) ==
  IF StartsWith(target, <<"o", "r", "i", "g", "i", "n", "/">>) THEN "L_mergebase" ELSE "L_fetch"

\* Where runLocalReview goes once `rev-parse --verify` settled: both catch blocks
\* return null; an existing remote-tracking name is used as it is, a local name is
\* fetched first.
pcAfterVerify(ok, target) ==
  IF ~ok THEN "done"
  ELSE IF isRemoteRef(target) THEN "L_mergebase"
  ELSE "L_fetch"

\* A fetch after which the comparison stays on the local branch.
refAfterFetchAlwaysLocal(ok, target) == target

\* targetBranchRef once `git fetch origin <target>` settled.
refAfterFetch(ok, target) == IF ok THEN OriginSlash \o target ELSE target

HashLen == 40
HexDigits ==
  {"a", "b", "c", "d", "e", "f", "0", "1", "2", "3", "4", "5", "6", "7", "8", "9"}

\* creationLine.match(/^([a-f0-9]{40})/)
matchFullHash(line) ==
  IF Len(line) >= HashLen /\ \A i \in 1..HashLen : line[i] \in HexDigits
    THEN SubSeq(line, 1, HashLen)
  ELSE NULL

\* A fork point read from the first line of the reflog instead of the last.
forkPointFromFirstLine(reflog) ==
  LET lines == Split(reflog, <<NL>>)
      creationLine == lines[1]
  IN IF Truthy(creationLine) /\ matchFullHash(creationLine) # NULL
       THEN matchFullHash(creationLine)
     ELSE UNDEF

\* mergeBase after the reflog was read: undefined when no hash was found.
forkPointFromReflog(reflog) ==
  LET lines == Split(reflog, <<NL>>)
      creationLine == lines[Len(lines)]
  IN IF Truthy(creationLine) /\ matchFullHash(creationLine) # NULL
       THEN matchFullHash(creationLine)
     ELSE UNDEF

diffRangeOf(base) == toStringArg(base) \o RangeToHead

\* logOutput.split('---EOC---').map(trim).filter(Boolean)
commitMessagesFromLog(logOutput) ==
  LET parts == Split(logOutput, EndOfCommit)
  IN FilterBoolean([i \in 1..Len(parts) |-> Trim(parts[i])])

\* A filter that tests the previous path of each file.
filterIgnoredByOldPath(files, patterns) ==
  IF ~patterns.isNull /\ Len(patterns.items) > 0
    THEN SelectSeq(files, LAMBDA file : ~shouldIgnoreFile(file.oldPath, patterns))
  ELSE files

\* filteredFileList
filterIgnored(files, patterns) ==
  IF ~patterns.isNull /\ Len(patterns.items) > 0
    THEN SelectSeq(files, LAMBDA file : ~shouldIgnoreFile(file.path, patterns))
  ELSE files

\* A loop that asks for the pre-change content of added files too.
needsOriginalContentAlways(status) == TRUE

\* status !== 'A': whether the pre-change content is asked for
needsOriginalContent(status) == status # <<"A">>

\* An entry that carries old_path whatever the status.
changedFileEntryWithOldPath(file, rawDiff, rawContent) ==
  [path |-> file.path, status |-> file.status, diff |-> rawDiff,
   content |-> truncateContent(rawContent, DefaultMaxLines), old_path |-> file.oldPath]

\* An entry whose diff is cut whatever the status.
changedFileEntryTruncatingEveryDiff(file, rawDiff, rawContent) ==
  LET content == truncateContent(rawContent, DefaultMaxLines)
      shownDiff == truncateContent(rawDiff, DefaultMaxLines)
  IN IF file.status = <<"R">> \/ file.status = <<"C">>
       THEN [path |-> file.path, status |-> file.status, diff |-> shownDiff,
             content |-> content, old_path |-> file.oldPath]
     ELSE [path |-> file.path, status |-> file.status, diff |-> shownDiff,
           content |-> content]

\* The object pushed onto changedFiles.
changedFileEntry(file, rawDiff, rawContent) ==
  LET content == truncateContent(rawContent, DefaultMaxLines)
      shownDiff == IF file.status = <<"D">> THEN truncateContent(rawDiff, DefaultMaxLines)
                   ELSE rawDiff
  IN IF file.status = <<"R">> \/ file.status = <<"C">>
       THEN [path |-> file.path, status |-> file.status, diff |-> shownDiff,
             content |-> content, old_path |-> file.oldPath]
     ELSE [path |-> file.path, status |-> file.status, diff |-> shownDiff,
           content |-> content]

localPayload(files, stats) ==
  [repo_url |-> normalizeRepoUrl(Trim(repoUrl)),
   commit_messages |-> commitMessages,
   changed_files |-> files,
   source_branch |-> branchName,
   author_email |-> stats.author_email,
   author_name |-> stats.author_name,
   contributors |-> stats.contributors]

\* A return path without the no-changes check.
noChangesNever(output, files) == FALSE

\* !nameStatusOutput.trim() && changedFiles.length === 0
noChangesFound(output, files) == Trim(output) = <<>> /\ Len(files) = 0

uncommittedPayload(files) ==
  [repo_url |-> normalizeRepoUrl(Trim(repoUrl)),
   commit_messages |-> <<>>,
   changed_files |-> files,
   source_branch |-> branchName]

\* What runUncommittedReview returns once its loop over fileList has ended.
uncommittedResult(output, files) ==
  IF noChangesFound(output, files) THEN ReturnNull
  ELSE ReturnPayload(uncommittedPayload(files))

\* -- the git stub ----------------------------------------------------------

\* One execa('git', ...) call: the subcommand with its fixed flags, the arguments
\* that vary, the index in fileList of the file it is about (0: none), and whether
\* the process succeeded.
Issue(name, args, file, ok) ==
  cmds' = Append(cmds, [name |-> name, args |-> args, file |-> file, ok |-> ok])

\* The locals of a call that has not run yet.
Fresh ==
  /\ repoUrl = <<>>
  /\ branchName = <<>>
  /\ repoRootPath = <<>>
  /\ targetBranchRef = NULL
  /\ mergeBase = UNDEF
  /\ commitMessages = <<>>
  /\ nameStatusOutput = <<>>
  /\ fileList = <<>>
  /\ idx = 0
  /\ diff = <<>>
  /\ changedFiles = <<>>
  /\ reflogOutput = NULL
  /\ cmds = <<>>
  /\ result = Pending

\* No kk process: the function is called directly, as the tests call it.
NoProcess ==
  /\ cli = [name |-> "none", targetBranch |-> NULL, dryRun |-> FALSE, json |-> FALSE,
            untracked |-> FALSE, ticketSystem |-> NULL, apiKey |-> FALSE,
            apiEndpoint |-> FALSE]
  /\ exitCode = 0
  /\ io = <<>>

\* No direct call of a pure function.
NoUnit ==
  /\ call = [name |-> "none"]
  /\ returned = UNDEF

Init ==
  /\ fn \in {"runLocalReview", "runUncommittedReview"}
  /\ IF fn = "runLocalReview"
       THEN /\ targetBranch \in TargetBranches
            /\ ignorePatterns \in IgnorePatternLists
            /\ mode = "unstaged"
            /\ includeUntracked = FALSE
            /\ stagedStatus = <<>>
            /\ unstagedStatus = <<>>
            /\ untrackedFiles = <<>>
            /\ pc = "L_remote"
       ELSE /\ targetBranch = NULL
            /\ ignorePatterns = [isNull |-> TRUE, items |-> <<>>]
            /\ mode \in Modes
            /\ includeUntracked \in BOOLEAN
            /\ stagedStatus \in StagedStatuses
            /\ unstagedStatus \in UnstagedStatuses
            /\ untrackedFiles \in UntrackedListings
            /\ pc = "U_remote"
  /\ Fresh
  /\ NoProcess
  /\ NoUnit

\* -- runLocalReview --------------------------------------------------------

L_GetRepoUrl ==
  /\ pc = "L_remote"
  /\ \E ok \in BOOLEAN :
       /\ Issue("remote get-url origin", <<>>, 0, ok)
       /\ IF ok
            THEN /\ repoUrl' \in RepoUrlOutputs
                 /\ pc' = "L_branch"
                 /\ UNCHANGED result
            ELSE /\ result' = CatchBlock
                 /\ pc' = "done"
                 /\ UNCHANGED repoUrl
  /\ UNCHANGED <<arguments, repository, kk, unit, branchName, repoRootPath, targetBranchRef, mergeBase,
                 commitMessages, nameStatusOutput, fileList, idx, diff, changedFiles,
                 reflogOutput>>

L_GetBranch ==
  /\ pc = "L_branch"
  /\ \E ok \in BOOLEAN :
       /\ Issue("rev-parse --abbrev-ref HEAD", <<>>, 0, ok)
       /\ IF ok
            THEN /\ \E out \in BranchOutputs : branchName' = Trim(out)
                 /\ pc' = "L_root"
                 /\ UNCHANGED result
            ELSE /\ result' = CatchBlock
                 /\ pc' = "done"
                 /\ UNCHANGED branchName
  /\ UNCHANGED <<arguments, repository, kk, unit, repoUrl, repoRootPath, targetBranchRef, mergeBase,
                 commitMessages, nameStatusOutput, fileList, idx, diff, changedFiles,
                 reflogOutput>>

L_GetRoot ==
  /\ pc = "L_root"
  /\ \E ok \in BOOLEAN :
       /\ Issue("rev-parse --show-toplevel", <<>>, 0, ok)
       /\ IF ok
            THEN /\ \E out \in RootOutputs : repoRootPath' = Trim(out)
                 /\ targetBranchRef' = targetBranch
                 /\ pc' = IF Truthy(targetBranch) THEN "L_verify" ELSE "L_reflog"
                 /\ UNCHANGED result
            ELSE /\ result' = CatchBlock
                 /\ pc' = "done"
                 /\ UNCHANGED <<repoRootPath, targetBranchRef>>
  /\ UNCHANGED <<arguments, repository, kk, unit, repoUrl, branchName, mergeBase, commitMessages,
                 nameStatusOutput, fileList, idx, diff, changedFiles, reflogOutput>>

L_VerifyTarget ==
  /\ pc = "L_verify"
  /\ \E ok \in BOOLEAN :
       /\ Issue("rev-parse --verify", <<targetBranch>>, 0, ok)
       /\ pc' = pcAfterVerify(ok, targetBranch)
       /\ result' = IF pc' = "done" THEN ReturnNull ELSE result
  /\ UNCHANGED <<arguments, repository, kk, unit, repoUrl, branchName, repoRootPath, targetBranchRef, mergeBase,
                 commitMessages, nameStatusOutput, fileList, idx, diff, changedFiles,
                 reflogOutput>>

L_FetchTarget ==
  /\ pc = "L_fetch"
  /\ \E ok \in BOOLEAN :
       /\ Issue("fetch origin", <<targetBranch>>, 0, ok)
       /\ targetBranchRef' = refAfterFetch(ok, targetBranch)
  /\ pc' = "L_mergebase"
  /\ UNCHANGED <<arguments, repository, kk, unit, repoUrl, branchName, repoRootPath, mergeBase, commitMessages,
                 nameStatusOutput, fileList, idx, diff, changedFiles, reflogOutput, result>>

L_Reflog ==
  /\ pc = "L_reflog"
  /\ \E ok \in BOOLEAN :
       /\ Issue("reflog show --no-abbrev-commit", <<branchName>>, 0, ok)
       /\ IF ok
            THEN \E out \in ReflogOutputs :
                   /\ reflogOutput' = out
                   /\ mergeBase' = forkPointFromReflog(out)
                   /\ IF Truthy(mergeBase')
                        THEN pc' = "L_log" /\ UNCHANGED result
                        ELSE pc' = "done" /\ result' = ReturnNull
            ELSE /\ result' = ReturnNull
                 /\ pc' = "done"
                 /\ UNCHANGED <<reflogOutput, mergeBase>>
  /\ UNCHANGED <<arguments, repository, kk, unit, repoUrl, branchName, repoRootPath, targetBranchRef,
                 commitMessages, nameStatusOutput, fileList, idx, diff, changedFiles>>

L_MergeBase ==
  /\ pc = "L_mergebase"
  /\ \E ok \in BOOLEAN :
       /\ Issue("merge-base", <<targetBranchRef, HeadRef>>, 0, ok)
       /\ IF ok
            THEN /\ \E out \in MergeBaseOutputs : mergeBase' = Trim(out)
                 /\ pc' = "L_log"
                 /\ UNCHANGED result
            ELSE /\ result' = CatchBlock
                 /\ pc' = "done"
                 /\ UNCHANGED mergeBase
  /\ UNCHANGED <<arguments, repository, kk, unit, repoUrl, branchName, repoRootPath, targetBranchRef,
                 commitMessages, nameStatusOutput, fileList, idx, diff, changedFiles,
                 reflogOutput>>

L_Log ==
  /\ pc = "L_log"
  /\ \E ok \in BOOLEAN :
       /\ Issue("log --pretty=%B---EOC---", <<diffRangeOf(mergeBase)>>, 0, ok)
       /\ IF ok
            THEN /\ \E out \in LogOutputs : commitMessages' = commitMessagesFromLog(out)
                 /\ pc' = "L_namestatus"
                 /\ UNCHANGED result
            ELSE /\ result' = CatchBlock
                 /\ pc' = "done"
                 /\ UNCHANGED commitMessages
  /\ UNCHANGED <<arguments, repository, kk, unit, repoUrl, branchName, repoRootPath, targetBranchRef, mergeBase,
                 nameStatusOutput, fileList, idx, diff, changedFiles, reflogOutput>>

L_NameStatus ==
  /\ pc = "L_namestatus"
  /\ \E ok \in BOOLEAN :
       /\ Issue("diff --name-status", <<diffRangeOf(mergeBase)>>, 0, ok)
       /\ IF ok
            THEN \E out \in NameStatusOutputs :
                   /\ nameStatusOutput' = out
                   /\ fileList' = filterIgnored(parseNameStatus(out), ignorePatterns)
                   /\ idx' = IF fileList' = <<>> THEN 0 ELSE 1
                   /\ pc' = IF fileList' = <<>> THEN "L_contrib" ELSE "L_diff"
                   /\ UNCHANGED result
            ELSE /\ result' = CatchBlock
                 /\ pc' = "done"
                 /\ UNCHANGED <<nameStatusOutput, fileList, idx>>
  /\ UNCHANGED <<arguments, repository, kk, unit, repoUrl, branchName, repoRootPath, targetBranchRef, mergeBase,
                 commitMessages, diff, changedFiles, reflogOutput>>

\* A loop that goes from the first file straight to the last one.
L_NextFileSkipping ==
  IF idx = Len(fileList)
    THEN pc' = "L_contrib" /\ UNCHANGED idx
  ELSE pc' = "L_diff" /\ idx' = Len(fileList)

\* The loop's step from the file at idx to the next file, or out of the loop.
L_NextFile ==
  IF idx = Len(fileList)
    THEN pc' = "L_contrib" /\ UNCHANGED idx
  ELSE pc' = "L_diff" /\ idx' = idx + 1

L_FileDiff ==
  /\ pc = "L_diff"
  /\ \E ok \in BOOLEAN :
       /\ Issue("diff -U15", <<diffRangeOf(mergeBase), fileList[idx].path>>, idx, ok)
       /\ IF ok
            THEN \E out \in DiffOutputs :
                   /\ diff' = out
                   /\ UNCHANGED result
                   /\ IF needsOriginalContent(fileList[idx].status)
                        THEN pc' = "L_show" /\ UNCHANGED <<idx, changedFiles>>
                        ELSE /\ changedFiles' =
                                  Append(changedFiles, changedFileEntry(fileList[idx], out, <<>>))
                             /\ L_NextFile
            ELSE /\ result' = CatchBlock
                 /\ pc' = "done"
                 /\ UNCHANGED <<diff, idx, changedFiles>>
  /\ UNCHANGED <<arguments, repository, kk, unit, repoUrl, branchName, repoRootPath, targetBranchRef, mergeBase,
                 commitMessages, nameStatusOutput, fileList, reflogOutput>>

L_FileShow ==
  /\ pc = "L_show"
  /\ \E ok \in BOOLEAN :
       /\ Issue("show",
                <<Trim(mergeBase) \o <<":">> \o toStringArg(fileList[idx].oldPath)>>, idx, ok)
       /\ \E out \in ShowOutputs :
            changedFiles' =
              Append(changedFiles,
                     changedFileEntry(fileList[idx], diff, IF ok THEN out ELSE <<>>))
  /\ L_NextFile
  /\ UNCHANGED <<arguments, repository, kk, unit, repoUrl, branchName, repoRootPath, targetBranchRef, mergeBase,
                 commitMessages, nameStatusOutput, fileList, diff, reflogOutput, result>>

\* getContributors, then the assembly of the payload
L_Contributors ==
  /\ pc = "L_contrib"
  /\ \E ok \in BOOLEAN :
       /\ Issue("log --no-merges --format=%ae|%an", <<diffRangeOf(mergeBase)>>, 0, ok)
       /\ IF ok
            THEN \E out \in AuthorLogOutputs :
                   result' = ReturnPayload(localPayload(changedFiles, contributorsFromLog(out)))
            ELSE result' = ReturnPayload(localPayload(changedFiles, EmptyContributors))
  /\ pc' = "done"
  /\ UNCHANGED <<arguments, repository, kk, unit, repoUrl, branchName, repoRootPath, targetBranchRef, mergeBase,
                 commitMessages, nameStatusOutput, fileList, idx, diff, changedFiles,
                 reflogOutput>>

\* -- runUncommittedReview --------------------------------------------------

U_GetRepoUrl ==
  /\ pc = "U_remote"
  /\ \E ok \in BOOLEAN :
       /\ Issue("remote get-url origin", <<>>, 0, ok)
       /\ IF ok
            THEN /\ repoUrl' \in RepoUrlOutputs
                 /\ pc' = "U_branch"
                 /\ UNCHANGED result
            ELSE /\ result' = CatchBlock
                 /\ pc' = "done"
                 /\ UNCHANGED repoUrl
  /\ UNCHANGED <<arguments, repository, kk, unit, branchName, repoRootPath, targetBranchRef, mergeBase,
                 commitMessages, nameStatusOutput, fileList, idx, diff, changedFiles,
                 reflogOutput>>

U_GetBranch ==
  /\ pc = "U_branch"
  /\ \E ok \in BOOLEAN :
       /\ Issue("rev-parse --abbrev-ref HEAD", <<>>, 0, ok)
       /\ IF ok
            THEN /\ \E out \in BranchOutputs : branchName' = Trim(out)
                 /\ pc' = "U_root"
                 /\ UNCHANGED result
            ELSE /\ result' = CatchBlock
                 /\ pc' = "done"
                 /\ UNCHANGED branchName
  /\ UNCHANGED <<arguments, repository, kk, unit, repoUrl, repoRootPath, targetBranchRef, mergeBase,
                 commitMessages, nameStatusOutput, fileList, idx, diff, changedFiles,
                 reflogOutput>>

U_GetRoot ==
  /\ pc = "U_root"
  /\ \E ok \in BOOLEAN :
       /\ Issue("rev-parse --show-toplevel", <<>>, 0, ok)
       /\ IF ok
            THEN /\ \E out \in RootOutputs : repoRootPath' = Trim(out)
                 /\ pc' = "U_namestatus"
                 /\ UNCHANGED result
            ELSE /\ result' = CatchBlock
                 /\ pc' = "done"
                 /\ UNCHANGED repoRootPath
  /\ UNCHANGED <<arguments, repository, kk, unit, repoUrl, branchName, targetBranchRef, mergeBase,
                 commitMessages, nameStatusOutput, fileList, idx, diff, changedFiles,
                 reflogOutput>>

\* The name-status command of the mode: anything but 'staged' lists the unstaged
\* changes.
nameStatusCommand(m) ==
  IF m = "staged" THEN "diff --cached --name-status" ELSE "diff --name-status"

\* The per-file diff command of the mode.
fileDiffCommand(m) ==
  IF m = "staged" THEN "diff --cached -U15 --" ELSE "diff -U15 --"

\* A listing of the unstaged changes that begins with the staged ones.
worktreeListingWithStaged(command) ==
  IF command = "diff --cached --name-status" THEN stagedStatus
  ELSE Join(FilterBoolean(<<stagedStatus, unstagedStatus>>), <<NL>>)

\* stdout of a name-status command in the repository of this call.
worktreeListing(command) ==
  IF command = "diff --cached --name-status" THEN stagedStatus ELSE unstagedStatus

U_NameStatus ==
  /\ pc = "U_namestatus"
  /\ \E ok \in BOOLEAN :
       /\ Issue(nameStatusCommand(mode), <<>>, 0, ok)
       /\ IF ok
            THEN \E out \in {worktreeListing(nameStatusCommand(mode))} :
                   /\ nameStatusOutput' = out
                   /\ fileList' = parseNameStatus(out)
                   /\ IF fileList' = <<>>
                        THEN /\ idx' = 0
                             /\ pc' = "done"
                             /\ result' = uncommittedResult(out, changedFiles)
                        ELSE /\ idx' = 1
                             /\ pc' = "U_diff"
                             /\ UNCHANGED result
            ELSE /\ result' = CatchBlock
                 /\ pc' = "done"
                 /\ UNCHANGED <<nameStatusOutput, fileList, idx>>
  /\ UNCHANGED <<arguments, repository, kk, unit, repoUrl, branchName, repoRootPath, targetBranchRef, mergeBase,
                 commitMessages, diff, changedFiles, reflogOutput>>

\* The loop's step from the file at idx to the next file, or out of the loop and
\* on to the return statements.
U_NextFile ==
  IF idx = Len(fileList)
    THEN /\ pc' = "done"
         /\ result' = uncommittedResult(nameStatusOutput, changedFiles')
         /\ UNCHANGED idx
  ELSE /\ pc' = "U_diff"
       /\ idx' = idx + 1
       /\ UNCHANGED result

U_FileDiff ==
  /\ pc = "U_diff"
  /\ \E ok \in BOOLEAN :
       /\ Issue(fileDiffCommand(mode), <<fileList[idx].path>>, idx, ok)
       /\ IF ok
            THEN \E out \in DiffOutputs :
                   /\ diff' = out
                   /\ IF needsOriginalContent(fileList[idx].status)
                        THEN pc' = "U_show" /\ UNCHANGED <<idx, changedFiles, result>>
                        ELSE /\ changedFiles' =
                                  Append(changedFiles, changedFileEntry(fileList[idx], out, <<>>))
                             /\ U_NextFile
            ELSE /\ result' = CatchBlock
                 /\ pc' = "done"
                 /\ UNCHANGED <<diff, idx, changedFiles>>
  /\ UNCHANGED <<arguments, repository, kk, unit, repoUrl, branchName, repoRootPath, targetBranchRef, mergeBase,
                 commitMessages, nameStatusOutput, fileList, reflogOutput>>

U_FileShow ==
  /\ pc = "U_show"
  /\ \E ok \in BOOLEAN :
       /\ Issue("show", <<HeadRef \o <<":">> \o toStringArg(fileList[idx].oldPath)>>, idx, ok)
       /\ \E out \in ShowOutputs :
            changedFiles' =
              Append(changedFiles,
                     changedFileEntry(fileList[idx], diff, IF ok THEN out ELSE <<>>))
  /\ U_NextFile
  /\ UNCHANGED <<arguments, repository, kk, unit, repoUrl, branchName, repoRootPath, targetBranchRef, mergeBase,
                 commitMessages, nameStatusOutput, fileList, diff, reflogOutput>>

\* -- the specification -----------------------------------------------------

Next ==
  \/ L_GetRepoUrl
  \/ L_GetBranch
  \/ L_GetRoot
  \/ L_VerifyTarget
  \/ L_FetchTarget
  \/ L_Reflog
  \/ L_MergeBase
  \/ L_Log
  \/ L_NameStatus
  \/ L_FileDiff
  \/ L_FileShow
  \/ L_Contributors
  \/ U_GetRepoUrl
  \/ U_GetBranch
  \/ U_GetRoot
  \/ U_NameStatus
  \/ U_FileDiff
  \/ U_FileShow

Spec == Init /\ [][Next]_vars

\* ------------------------------------------------------------------------
\* The kk command line (index.js): the review command and the three
\* uncommitted-review commands, from their preflight checks to the process's end
\* ------------------------------------------------------------------------

locals ==
  <<repoUrl, branchName, repoRootPath, targetBranchRef, mergeBase, commitMessages,
    nameStatusOutput, fileList, idx, diff, changedFiles, reflogOutput, cmds, result>>

\* log() writes a line to stderr, output() and console.log a line to stdout;
\* axios.post sends a request.
Log(text) == [stream |-> "stderr", text |-> text]
Output(text) == [stream |-> "stdout", text |-> text]
Request(text) == [stream |-> "http", text |-> text]

\* String.prototype.toLowerCase over the letters the inputs below are written in.
toLowerCase(s) ==
  LET LowerOf == ("A" :> "a") @@ ("D" :> "d") @@ ("O" :> "o") @@ ("Y" :> "y") @@ ("N" :> "n")
  IN  [i \in 1..Len(s) |-> IF s[i] \in DOMAIN LowerOf THEN LowerOf[s[i]] ELSE s[i]]

\* options.ticketSystem || getTicketSystem() || null, as given on this command line.
TicketSystems == {NULL, <<"A", "d", "o">>, <<"x">>}

UncommittedCommands == {"review-staged", "review-unstaged", "review-all-uncommitted"}

\* What the user types at the confirmation prompt.
Answers == {<<>>, <<"Y">>, <<"y", "e", "s">>, <<"n">>}

\* The lines logged by the first failing preflight check, none when all pass.
preflight(c) ==
  IF ~c.apiKey
    THEN <<Log("API Key not found! Please run kk config --key YOUR_KEY first.")>>
  ELSE IF ~c.apiEndpoint
    THEN <<Log("API Endpoint not found! Please run kk config --endpoint YOUR_ENDPOINT first.")>>
  ELSE IF /\ Truthy(c.ticketSystem)
          /\ toLowerCase(c.ticketSystem) \notin {<<"j", "i", "r", "a">>, <<"a", "d", "o">>}
    THEN <<Log("Invalid ticket system"), Log("Valid options: jira, ado")>>
  ELSE <<>>

\* The value runLocalReview receives as its second parameter, ignorePatterns: the
\* review command passes ticketSystem there; a string is iterated character by
\* character.
secondArgument(ticketSystem) ==
  IF ticketSystem = NULL
    THEN [isNull |-> TRUE, items |-> <<>>]
  ELSE [isNull |-> FALSE, items |-> [i \in 1..Len(ticketSystem) |-> <<ticketSystem[i]>>]]

\* `if (!payload)`: the handler makes no difference between the reasons for which
\* the analysis returned null.
analysisFailed(res) == res.kind = "null"

\* An analysis without payload ending the process with a clean status.
statusAfterAnalysisAlwaysClean(res) == 0

\* The status the process ends with when the handler stops right after the analysis.
statusAfterAnalysis(res) == IF analysisFailed(res) THEN 1 ELSE 0

\* `payload.ticket_system = ticketSystem` when a ticket system is set.
withTicketSystem(res, ticketSystem) ==
  IF Truthy(ticketSystem)
    THEN ReturnPayload(res.payload[1] @@ [ticket_system |-> ticketSystem])
  ELSE res

\* answer.toLowerCase() === 'y' || answer.toLowerCase() === 'yes' || answer === ''
confirmed(answer) ==
  \/ toLowerCase(answer) = <<"y">>
  \/ toLowerCase(answer) = <<"y", "e", "s">>
  \/ answer = <<>>

\* A handler that looks at --dry-run only after the confirmation and in JSON mode.
afterAnalysisAskingFirst(failure, summary) ==
  IF analysisFailed(result)
    THEN /\ io' = Append(io, Log(failure))
         /\ exitCode' = statusAfterAnalysis(result)
         /\ pc' = "exited"
         /\ UNCHANGED result
  ELSE /\ result' = withTicketSystem(result, cli.ticketSystem)
       /\ UNCHANGED exitCode
       /\ IF ~cli.json
            THEN /\ io' = io \o <<Log(summary), Log("Files to review:"),
                                  Output("Proceed with AI review? (Y/n): ")>>
                 /\ pc' = "K_confirm"
          ELSE IF cli.dryRun
            THEN /\ io' = io \o <<Log("Dry Run - Payload that would be sent:"),
                                  Log("displayPayload")>>
                 /\ pc' = "exited"
          ELSE /\ io' = io \o <<Log("Submitting review to the AI..."), Request("POST")>>
               /\ pc' = "K_post"

\* From the return of the analysis to the handler's next await or its end. The
\* confirmation prompt is written by readline to process.stdout.
afterAnalysis(failure, summary) ==
  IF analysisFailed(result)
    THEN /\ io' = Append(io, Log(failure))
         /\ exitCode' = statusAfterAnalysis(result)
         /\ pc' = "exited"
         /\ UNCHANGED result
  ELSE LET said == IF Truthy(cli.ticketSystem)
                     THEN Append(io, Log("Using ticket system"))
                   ELSE io
       IN  /\ result' = withTicketSystem(result, cli.ticketSystem)
           /\ UNCHANGED exitCode
           /\ IF cli.dryRun
                THEN /\ io' = said \o <<Log("Dry Run - Payload that would be sent:"),
                                        Log("displayPayload"),
                                        Log("Run without --dry-run to send to API"),
                                        Log("Diffs and content are truncated in dry-run")>>
                     /\ pc' = "exited"
              ELSE IF ~cli.json
                THEN /\ io' = said \o <<Log(summary), Log("Files to review:"),
                                        Output("Proceed with AI review? (Y/n): ")>>
                     /\ pc' = "K_confirm"
              ELSE /\ io' = said \o <<Log("Submitting review to the AI..."), Request("POST")>>
                   /\ pc' = "K_post"

\* The user's answer to confirmAction.
afterConfirmation ==
  \E answer \in Answers :
    IF confirmed(answer)
      THEN /\ io' = io \o <<Log("Submitting review to the AI..."), Request("POST")>>
           /\ pc' = "K_post"
    ELSE /\ io' = Append(io, Log("Review cancelled."))
         /\ pc' = "exited"

\* A handler that reports a failed request on stderr only, whatever the mode.
afterPostSilentOnFailure ==
  \E ok \in BOOLEAN, hasResponse \in BOOLEAN :
    IF ok
      THEN /\ io' = io \o <<Log("Review completed"),
                            IF cli.json THEN Output("response.data")
                            ELSE Output("formatReviewOutput")>>
           /\ pc' = "exited"
           /\ UNCHANGED exitCode
    ELSE /\ io' = io \o <<Log("Review failed"), Log("An error occurred during the API request:")>>
                    \o (IF hasResponse THEN <<Log("Status:"), Log("Data:")>>
                        ELSE <<Log("error.message")>>)
         /\ exitCode' = 1
         /\ pc' = "exited"

\* The outcome of axios.post.
afterPost ==
  \E ok \in BOOLEAN, hasResponse \in BOOLEAN :
    IF ok
      THEN /\ io' = io \o <<Log("Review completed"),
                            IF cli.json THEN Output("response.data")
                            ELSE Output("formatReviewOutput")>>
           /\ pc' = "exited"
           /\ UNCHANGED exitCode
    ELSE /\ io' = io \o <<Log("Review failed"), Log("An error occurred during the API request:")>>
                    \o (IF hasResponse THEN <<Log("Status:"), Log("Data:")>>
                        ELSE <<Log("error.message")>>)
                    \o (IF cli.json THEN <<Output("formatErrorOutput")>> ELSE <<>>)
         /\ exitCode' = 1
         /\ pc' = "exited"

\* -- kk review [target-branch] --------------------------------------------

Review_Start ==
  /\ pc = "cli"
  /\ cli.name = "review"
  /\ LET greeting == Log("Starting AI Code Review") IN
       IF preflight(cli) # <<>>
         THEN /\ io' = <<greeting>> \o preflight(cli)
              /\ exitCode' = 1
              /\ pc' = "exited"
              /\ UNCHANGED arguments
       ELSE /\ io' = <<greeting>>
            /\ fn' = "runLocalReview"
            /\ targetBranch' = cli.targetBranch
            /\ ignorePatterns' = secondArgument(cli.ticketSystem)
            /\ pc' = "L_remote"
            /\ UNCHANGED <<mode, includeUntracked, exitCode>>
  /\ UNCHANGED <<cli, repository, unit, locals>>

Review_Analysed ==
  /\ pc = "done"
  /\ cli.name = "review"
  /\ afterAnalysis("Could not proceed with review due to errors during analysis.",
                   "Ready to submit for review:")
  /\ UNCHANGED <<arguments, repository, cli, unit, repoUrl, branchName, repoRootPath,
                 targetBranchRef, mergeBase, commitMessages, nameStatusOutput, fileList, idx,
                 diff, changedFiles, reflogOutput, cmds>>

Review_Confirm ==
  /\ pc = "K_confirm"
  /\ cli.name = "review"
  /\ afterConfirmation
  /\ UNCHANGED <<arguments, repository, cli, exitCode, unit, locals>>

Review_Post ==
  /\ pc = "K_post"
  /\ cli.name = "review"
  /\ afterPost
  /\ UNCHANGED <<arguments, repository, cli, unit, locals>>

\* -- kk review-staged | review-unstaged | review-all-uncommitted -----------

Uncommitted_Start ==
  /\ pc = "cli"
  /\ cli.name \in UncommittedCommands
  /\ LET greeting == Log("Reviewing uncommitted changes...") IN
       IF preflight(cli) # <<>>
         THEN /\ io' = <<greeting>> \o preflight(cli)
              /\ exitCode' = 1
              /\ pc' = "exited"
              /\ UNCHANGED arguments
       ELSE /\ io' = <<greeting>>
            /\ fn' = "runUncommittedReview"
            /\ mode' = CASE cli.name = "review-staged" -> "staged"
                          [] cli.name = "review-unstaged" -> "unstaged"
                          [] cli.name = "review-all-uncommitted" -> "all"
            /\ includeUntracked' = cli.untracked
            /\ pc' = "U_remote"
            /\ UNCHANGED <<targetBranch, ignorePatterns, exitCode>>
  /\ UNCHANGED <<cli, repository, unit, locals>>

Uncommitted_Analysed ==
  /\ pc = "done"
  /\ cli.name \in UncommittedCommands
  /\ afterAnalysis("No changes found or error occurred during analysis.",
                   "Ready to submit uncommitted changes for review:")
  /\ UNCHANGED <<arguments, repository, cli, unit, repoUrl, branchName, repoRootPath,
                 targetBranchRef, mergeBase, commitMessages, nameStatusOutput, fileList, idx,
                 diff, changedFiles, reflogOutput, cmds>>

Uncommitted_Confirm ==
  /\ pc = "K_confirm"
  /\ cli.name \in UncommittedCommands
  /\ afterConfirmation
  /\ UNCHANGED <<arguments, repository, cli, exitCode, unit, locals>>

Uncommitted_Post ==
  /\ pc = "K_post"
  /\ cli.name \in UncommittedCommands
  /\ afterPost
  /\ UNCHANGED <<arguments, repository, cli, unit, locals>>

\* A kk process started on one of the four review command lines.
CliInit ==
  /\ \E name \in {"review"} \cup UncommittedCommands :
       /\ cli \in [name : {name},
                   targetBranch : IF name = "review" THEN TargetBranches ELSE {NULL},
                   dryRun : BOOLEAN, json : BOOLEAN,
                   untracked : IF name \in {"review-unstaged", "review-all-uncommitted"}
                                 THEN BOOLEAN ELSE {FALSE},
                   ticketSystem : TicketSystems,
                   apiKey : BOOLEAN, apiEndpoint : BOOLEAN]
       /\ IF name = "review"
            THEN stagedStatus = <<>> /\ unstagedStatus = <<>> /\ untrackedFiles = <<>>
          ELSE /\ stagedStatus \in StagedStatuses
               /\ unstagedStatus \in UnstagedStatuses
               /\ untrackedFiles \in UntrackedListings
  /\ fn = "none"
  /\ targetBranch = NULL
  /\ ignorePatterns = [isNull |-> TRUE, items |-> <<>>]
  /\ mode = "unstaged"
  /\ includeUntracked = FALSE
  /\ pc = "cli"
  /\ exitCode = 0
  /\ io = <<>>
  /\ Fresh
  /\ NoUnit

CliNext ==
  \/ Next
  \/ Review_Start
  \/ Review_Analysed
  \/ Review_Confirm
  \/ Review_Post
  \/ Uncommitted_Start
  \/ Uncommitted_Analysed
  \/ Uncommitted_Confirm
  \/ Uncommitted_Post

CliSpec == CliInit /\ [][CliNext]_vars

\* ------------------------------------------------------------------------
\* Properties of the collector
\* ------------------------------------------------------------------------

Finished == pc = "done"
Returned == result.kind = "payload"
Payload == result.payload[1]
CmdIndex == 1..Len(cmds)

LocalPayloadFields ==
  {"repo_url", "commit_messages", "changed_files", "source_branch", "author_email",
   "author_name", "contributors"}
UncommittedPayloadFields == {"repo_url", "commit_messages", "changed_files", "source_branch"}

\* The awaits a call can be suspended at: each is the guard of one action, which
\* takes either outcome of the command it issues.
AwaitPoints ==
  {"L_remote", "L_branch", "L_root", "L_verify", "L_fetch", "L_reflog", "L_mergebase",
   "L_log", "L_namestatus", "L_diff", "L_show", "L_contrib", "U_remote", "U_branch",
   "U_root", "U_namestatus", "U_diff", "U_show"}

\* C1: runLocalReview and runUncommittedReview never let an exception escape:
\* whatever git commands succeed or fail, an unfinished call is at an await, a
\* finished call has returned null or a payload, and a payload has every field of
\* its function and one changed_files entry for every file of the list.
C1_NoExceptionEscapes ==
  /\ result.kind \in {"pending", "null", "payload"}
  /\ Finished <=> result.kind # "pending"
  /\ ~Finished =>
       /\ pc \in AwaitPoints
       /\ pc \in {"L_diff", "L_show", "U_diff", "U_show"} => idx \in 1..Len(fileList)
  /\ result.kind = "null" => result.payload = <<>>
  /\ Returned =>
       /\ DOMAIN Payload = IF fn = "runLocalReview" THEN LocalPayloadFields
                           ELSE UncommittedPayloadFields
       /\ Len(Payload.changed_files) = Len(fileList)
       /\ \A i \in 1..Len(fileList) : Payload.changed_files[i].path = fileList[i].path

\* A per-file diff failed after an earlier file had been collected, and the call
\* returned null.
C1_Witness ==
  /\ Finished
  /\ result.kind = "null"
  /\ Len(changedFiles) >= 1
  /\ \E i \in CmdIndex : cmds[i].file >= 2 /\ ~cmds[i].ok

AfterVerification == {"fetch origin", "merge-base", "log --pretty=%B---EOC---",
                      "diff --name-status", "diff -U15", "show",
                      "log --no-merges --format=%ae|%an", "reflog show --no-abbrev-commit"}

\* C2: when the verification of an explicit target branch fails, runLocalReview
\* returns null and issues no fetch, merge-base, log, diff or show command after
\* it.
C2_BranchNotFound ==
  \A i \in CmdIndex :
    (cmds[i].name = "rev-parse --verify" /\ ~cmds[i].ok) =>
      /\ cmds[i].args = <<targetBranch>>
      /\ Finished
      /\ result.kind = "null"
      /\ \A j \in CmdIndex : j > i => cmds[j].name \notin AfterVerification

\* The verification of the local name main failed.
C2_Witness ==
  /\ targetBranch = Main
  /\ Finished
  /\ \E i \in CmdIndex : cmds[i].name = "rev-parse --verify" /\ ~cmds[i].ok

LocalTargetGiven ==
  /\ fn = "runLocalReview"
  /\ Truthy(targetBranch)
  /\ ~StartsWith(targetBranch, <<"o", "r", "i", "g", "i", "n", "/">>)

\* C3: for an explicit local target branch that exists, the merge-base is computed
\* against origin/<branch> when the fetch succeeded and against <branch> when it
\* failed, and in both cases the call returns a payload when every other git
\* command succeeds.
C3_FetchFallback ==
  LocalTargetGiven =>
    /\ \A i \in CmdIndex :
         cmds[i].name = "merge-base" =>
           /\ i > 1
           /\ cmds[i - 1].name = "fetch origin"
           /\ cmds[i].args[1] = IF cmds[i - 1].ok
                                  THEN <<"o", "r", "i", "g", "i", "n", "/">> \o targetBranch
                                ELSE targetBranch
    /\ \A i \in CmdIndex :
         cmds[i].name = "fetch origin" =>
           /\ ~Finished
                \/ (\E j \in CmdIndex : j = i + 1 /\ cmds[j].name = "merge-base")
           /\ (Finished /\ \A j \in CmdIndex : j # i => cmds[j].ok) => Returned

\* The fetch failed, the merge-base was computed against main, and a payload was
\* returned.
C3_Witness ==
  /\ targetBranch = Main
  /\ Returned
  /\ \E i \in CmdIndex : cmds[i].name = "fetch origin" /\ ~cmds[i].ok
  /\ \E i \in CmdIndex : cmds[i].name = "merge-base" /\ cmds[i].args[1] = Main

\* The text after the last line break of s.
LastLineOf(s) ==
  LET breaks == {i \in 1..Len(s) : s[i] = NL}
  IN IF breaks = {} THEN s
     ELSE SubSeq(s, (CHOOSE i \in breaks : \A k \in breaks : k <= i) + 1, Len(s))

BeginsWithFullHash(line) ==
  /\ Len(line) >= 40
  /\ \A i \in 1..40 :
       line[i] \in {"a", "b", "c", "d", "e", "f", "0", "1", "2", "3", "4", "5", "6", "7",
                    "8", "9"}

RangeCommands == {"log --pretty=%B---EOC---", "diff --name-status", "diff -U15",
                  "log --no-merges --format=%ae|%an"}

\* C4: with no target branch the fork point is the 40-character hash that begins
\* the last line of the reflog, and every log and diff command ranges from it; when
\* that line has no such hash, or the reflog command fails, the call returns null
\* with no log or diff command; no merge-base command is issued on this path.
C4_ForkPointFromReflog ==
  (fn = "runLocalReview" /\ ~Truthy(targetBranch)) =>
    /\ \A i \in CmdIndex : cmds[i].name \notin {"merge-base", "rev-parse --verify", "fetch origin"}
    /\ \A i \in CmdIndex :
         cmds[i].name = "reflog show --no-abbrev-commit" =>
           IF cmds[i].ok /\ BeginsWithFullHash(LastLineOf(reflogOutput))
             THEN /\ mergeBase = SubSeq(LastLineOf(reflogOutput), 1, 40)
                  /\ \A j \in CmdIndex :
                       cmds[j].name \in RangeCommands =>
                         cmds[j].args[1] = mergeBase \o <<".", ".", "H", "E", "A", "D">>
                  /\ \A j \in CmdIndex :
                       cmds[j].name = "show" =>
                         StartsWith(cmds[j].args[1], mergeBase \o <<":">>)
                  /\ Len(cmds) = i => pc = "L_log"
           ELSE /\ Finished
                /\ result.kind = "null"
                /\ Len(cmds) = i

\* A two-line reflog whose lines begin with different hashes: the payload was
\* collected from the hash of the last line.
C4_Witness ==
  /\ fn = "runLocalReview"
  /\ targetBranch = NULL
  /\ Returned
  /\ reflogOutput # NULL
  /\ Len(Split(reflogOutput, <<NL>>)) = 2
  /\ mergeBase = Hash2
  /\ Len(Payload.changed_files) >= 1

ReadOnlyCommands ==
  {"remote get-url origin", "rev-parse --abbrev-ref HEAD", "rev-parse --show-toplevel",
   "rev-parse --verify", "reflog show --no-abbrev-commit", "merge-base",
   "log --pretty=%B---EOC---", "log --no-merges --format=%ae|%an", "diff --name-status",
   "diff --cached --name-status", "diff -U15", "diff -U15 --", "diff --cached -U15 --",
   "show"}

\* C5: the only command that changes the repository is `git fetch origin <branch>`;
\* it is issued at most once, for runLocalReview only, for a target that does not
\* start with origin/ and after that target was verified to exist.
C5_OnlyFetchMutates ==
  /\ \A i \in CmdIndex : cmds[i].name \in ReadOnlyCommands \cup {"fetch origin"}
  /\ Cardinality({i \in CmdIndex : cmds[i].name = "fetch origin"}) <= 1
  /\ \A i \in CmdIndex :
       cmds[i].name = "fetch origin" =>
         /\ LocalTargetGiven
         /\ cmds[i].args = <<targetBranch>>
         /\ \E j \in 1..(i - 1) :
              /\ cmds[j].name = "rev-parse --verify"
              /\ cmds[j].args = <<targetBranch>>
              /\ cmds[j].ok

\* A finished review against origin/main that collected files without a fetch.
C5_Witness ==
  /\ targetBranch = <<"o", "r", "i", "g", "i", "n", "/">> \o Main
  /\ Returned
  /\ Len(Payload.changed_files) >= 1
  /\ \A i \in CmdIndex : cmds[i].name # "fetch origin"

Blank(s) == \A i \in 1..Len(s) : s[i] \in {" ", NL, TAB}

\* C6: runUncommittedReview never returns a payload whose changed_files is empty:
\* when the status output of the mode is empty and nothing was collected it returns
\* null.
C6_NoEmptyPayload ==
  fn = "runUncommittedReview" =>
    /\ Returned => Len(Payload.changed_files) >= 1
    /\ (/\ Finished
        /\ \A i \in CmdIndex : cmds[i].ok
        /\ Blank(nameStatusOutput)) => result.kind = "null"

\* Every command succeeded, the staged listing was empty, and the call returned
\* null.
C6_Witness ==
  /\ fn = "runUncommittedReview"
  /\ mode = "staged"
  /\ Finished
  /\ Len(cmds) = 4
  /\ \A i \in CmdIndex : cmds[i].ok
  /\ stagedStatus = <<>>
  /\ result.kind = "null"

PathsOf(files) == [i \in 1..Len(files) |-> files[i].path]

\* C7: in mode 'all' changed_files holds the entries of the staged name-status
\* list followed by the entries of the unstaged one.
C7_AllModeIsUnion ==
  (/\ fn = "runUncommittedReview"
   /\ mode = "all"
   /\ Finished
   /\ \A i \in CmdIndex : cmds[i].ok) =>
    LET expected == PathsOf(parseNameStatus(stagedStatus))
                      \o PathsOf(parseNameStatus(unstagedStatus))
    IN IF expected = <<>> THEN result.kind = "null"
       ELSE Returned /\ PathsOf(Payload.changed_files) = expected

\* C8: in runLocalReview changed_files is the sub-sequence, in name-status order,
\* of the parsed files whose current path matches no ignore pattern; the previous
\* path of a renamed or copied file plays no part, and without patterns every
\* parsed file is kept.
C8_IgnoreByNewPath ==
  (fn = "runLocalReview" /\ Returned) =>
    LET parsed == parseNameStatus(nameStatusOutput)
        kept == SelectSeq(parsed, LAMBDA f : ~shouldIgnoreFile(f.path, ignorePatterns))
    IN /\ Len(Payload.changed_files) = Len(kept)
       /\ \A i \in 1..Len(kept) :
            /\ Payload.changed_files[i].path = kept[i].path
            /\ Payload.changed_files[i].status = kept[i].status
       /\ (ignorePatterns.isNull \/ ignorePatterns.items = <<>>) => kept = parsed

\* With *.lock ignored, the rename o.lock -> n.js is in the payload and another
\* file of the listing was left out.
C8_Witness ==
  /\ fn = "runLocalReview"
  /\ Returned
  /\ ignorePatterns.items # <<>>
  /\ \E i \in 1..Len(Payload.changed_files) :
       /\ Payload.changed_files[i].status = <<"R">>
       /\ Payload.changed_files[i].path = <<"n", ".", "j", "s">>
       /\ shouldIgnoreFile(Payload.changed_files[i].old_path, ignorePatterns)
  /\ Len(Payload.changed_files) < Len(parseNameStatus(nameStatusOutput))

ShowsOf(i) == {k \in CmdIndex : cmds[k].name = "show" /\ cmds[k].file = i}

\* C9: a failed `git show` of the pre-change content of a file whose status is not
\* A leaves that file in changed_files with empty content, every other file has
\* the content its own show gave, and the call does not return null for it; for a
\* file with status A no show command is issued and the content is empty.
C9_ContentUnavailable ==
  /\ Returned =>
       \A i \in 1..Len(fileList) :
         LET entry == Payload.changed_files[i]
         IN /\ entry.path = fileList[i].path
            /\ IF fileList[i].status = <<"A">>
                 THEN ShowsOf(i) = {} /\ entry.content = <<>>
                 ELSE /\ Cardinality(ShowsOf(i)) = 1
                      /\ \A k \in ShowsOf(i) :
                           entry.content = IF cmds[k].ok THEN <<"o", "l", "d">> ELSE <<>>
  /\ (cmds # <<>> /\ cmds[Len(cmds)].name = "show" /\ ~cmds[Len(cmds)].ok) =>
       /\ result.kind # "null"
       /\ Len(changedFiles) = cmds[Len(cmds)].file
       /\ changedFiles[Len(changedFiles)].content = <<>>

\* A payload with an added file, a file whose show failed and a file whose show
\* succeeded.
C9_Witness ==
  /\ Returned
  /\ \E i, j, k \in 1..Len(fileList) :
       /\ fileList[i].status = <<"A">>
       /\ \E c \in ShowsOf(j) : ~cmds[c].ok
       /\ \E c \in ShowsOf(k) : cmds[c].ok
       /\ Payload.changed_files[j].content = <<>>
       /\ Payload.changed_files[k].content = <<"o", "l", "d">>

NeverReissued ==
  \A i, j \in CmdIndex :
    (i < j /\ ~cmds[i].ok) =>
      ~(/\ cmds[j].name = cmds[i].name
        /\ cmds[j].args = cmds[i].args
        /\ cmds[j].file = cmds[i].file)

\* C10 as stated: the failure of any git command other than the fetch of the
\* target branch and the show of a pre-change content makes the call return null,
\* and no failed command is issued again.
C10_AsStated ==
  /\ \A i \in CmdIndex :
       (~cmds[i].ok /\ cmds[i].name \notin {"fetch origin", "show"}) =>
         (Finished => result.kind = "null")
  /\ NeverReissued

\* C10, amended: the failure of any git command other than the fetch of the target
\* branch, the show of a pre-change content and the author log of getContributors
\* ends the call at once with null, and no failed command is issued again.
C10_FatalFailures ==
  /\ \A i \in CmdIndex :
       (~cmds[i].ok /\ cmds[i].name \notin {"fetch origin", "show",
                                            "log --no-merges --format=%ae|%an"}) =>
         /\ i = Len(cmds)
         /\ Finished
         /\ result.kind = "null"
  /\ \A i \in CmdIndex :
       (~cmds[i].ok /\ cmds[i].name = "log --no-merges --format=%ae|%an") =>
         /\ Returned
         /\ Payload.contributors = <<>>
         /\ Payload.author_email = NULL
         /\ Payload.author_name = NULL
  /\ NeverReissued

\* The name-status command of a review failed after three commands succeeded.
C10_Witness ==
  /\ Finished
  /\ result.kind = "null"
  /\ Len(cmds) >= 5
  /\ cmds[Len(cmds)].name = "diff --name-status"
  /\ ~cmds[Len(cmds)].ok

\* ------------------------------------------------------------------------
\* Direct calls of the exported pure functions, as the unit tests make them
\* ------------------------------------------------------------------------

\* Most lines of a text handed to truncateContent.
MaxTextLines == 4

\* Texts of one to MaxTextLines lines, each line empty, "a" or "b".
Texts ==
  { Join(ls, <<NL>>) :
      ls \in UNION { [1..n -> {<<>>, <<"a">>, <<"b">>}] : n \in 1..MaxTextLines } }

\* maxLines: from 0 to one past the longest text, and the default.
TruncateCalls ==
  [name : {"truncateContent"}, content : Texts,
   maxLines : (0..(MaxTextLines + 1)) \cup {DefaultMaxLines}]

\* Listings as git prints them, the same with a trailing line break or with every
\* line break doubled, the empty string, and lines that lack a field.
ParseCalls ==
  [name : {"parseNameStatus"},
   output : NameStatusOutputs
            \cup { o \o <<NL>> : o \in NameStatusOutputs }
            \cup { ReplaceAll(o, <<NL>>, <<NL, NL>>) : o \in NameStatusOutputs }
            \cup { <<>>, <<"M">>, <<"R", "1", "0", "0", TAB, "o">>, <<" ">>,
                   <<"C", TAB, TAB, "n">>, <<"T", TAB, "a", TAB, "b">> }]

\* Remote URLs: the SSH form of the three hosts and of Azure DevOps, each alone
\* and behind a scheme, and URLs of no SSH form; every one as it is, with .git
\* appended, and with .git appended twice.
RemoteUrls ==
  LET hosts == {GitHubHost, GitLabHost, BitbucketHost}
      users == {<<"u">>, <<"o", ".", "r", "g">>}
      repos == {<<"r">>, <<"g", "/", "r">>, <<"r", ".", "j", "s">>}
      ssh == { <<"g", "i", "t", "@">> \o h \o <<":">> \o u \o <<"/">> \o r :
                 h \in hosts, u \in users, r \in repos }
      azure == { AzureSshPrefix \o <<"o", "/", "p", "/">> \o r : r \in repos }
      plain == {
        <<"h", "t", "t", "p", "s", ":", "/", "/", "g", "i", "t", "h", "u", "b", ".", "c", "o", "m", "/", "u", "s", "e", "r", "/", "r", "e", "p", "o">>,
        <<"h", "t", "t", "p", "s", ":", "/", "/", "d", "e", "v", ".", "a", "z", "u", "r", "e", ".", "c", "o", "m", "/", "o", "/", "p", "/", "_", "g", "i", "t", "/", "r">>,
        <<"g", "i", "t", "@", "e", "x", "a", "m", "p", "l", "e", ".", "c", "o", "m", ":", "u", "/", "r">>,
        <<"g", "i", "t", "@", "g", "i", "t", "h", "u", "b", ".", "c", "o", "m", ":", "r", "e", "p", "o">>,
        <<"s", "s", "h", ":", "/", "/", "g", "i", "t", "@", "g", "i", "t", "h", "u", "b", ".", "c", "o", "m", "/", "u", "/", "r">>,
        <<"/", "s", "r", "v", "/", "g", "i", "t", "/", "r">>,
        <<>> }
      bare == ssh \cup azure \cup plain
               \cup { <<"s", "s", "h", ":", "/", "/">> \o x : x \in ssh \cup azure }
  IN  bare \cup { x \o DotGit : x \in bare } \cup { x \o DotGit \o DotGit : x \in bare }

NormalizeCalls == [name : {"normalizeRepoUrl"}, url : RemoteUrls]

\* Glob patterns: a literal name, the wildcards *, ** and ? next to a dot and a
\* directory, ** in front of a directory separator, and a name holding '|'.
GlobPatterns ==
  { <<"a", ".", "b">>,
    <<"*", ".", "b">>,
    <<"d", "/", "*">>,
    <<"d", "/", "*", "*">>,
    <<"*", "*", "/", "*", ".", "b">>,
    <<"a", "?", "b">>,
    <<"*">>,
    <<"*", "*">>,
    <<"a">>,
    <<"a", "|", "c">>,
    <<"*", "*", "/", "a">>,
    <<"*", "a">> }

\* Paths, with and without directories.
FilePaths ==
  { <<>>,
    <<"a">>,
    <<"a", "b">>,
    <<"a", ".", "b">>,
    <<"a", "x", "b">>,
    <<"a", "/", "b">>,
    <<"x", "a", ".", "b">>,
    <<"a", ".", "b", "x">>,
    <<"d", "/", "a">>,
    <<"d", "/", "a", ".", "b">>,
    <<"d", "/", "e", "/", "a", ".", "b">>,
    <<"e", "/", "d", "/", "a">>,
    <<"a", "|", "c">>,
    <<"c">>,
    <<".", "b">> }

\* No list (null or undefined), the empty list, and every list of one or two of
\* the patterns.
IgnoreCalls ==
  [name : {"shouldIgnoreFile"}, filePath : FilePaths,
   patterns : {[isNull |-> TRUE, items |-> <<>>], [isNull |-> FALSE, items |-> <<>>]}
                \cup { [isNull |-> FALSE, items |-> <<p>>] : p \in GlobPatterns }
                \cup { [isNull |-> FALSE, items |-> <<p, r>>] : p \in GlobPatterns,
                                                               r \in GlobPatterns }]

\* Most commits in the range handed to getContributors.
MaxCommits == 3

\* What `git log --format=%ae|%an` prints for a commit: two authors, one of them
\* under two names and once without a name, a commit without an email, and a line
\* without the separator.
AuthorLines ==
  { <<"a", "@", "x", "|", "A", "n">>,
    <<"a", "@", "x", "|", "A", "l">>,
    <<"b", "@", "x", "|", "B", "o">>,
    <<"a", "@", "x", "|">>,
    <<"|", "N", "o">>,
    <<"c", "@", "x">> }

\* The answer of the git stub to getContributors' log command: it fails, or it
\* prints up to MaxCommits lines, with or without a final line break.
ContributorCalls ==
  LET logs == { Join(ls, <<NL>>) :
                  ls \in UNION { [1..n -> AuthorLines] : n \in 0..MaxCommits } }
  IN  [name : {"getContributors"}, ok : {TRUE},
       authorOutput : logs \cup { l \o <<NL>> : l \in logs }]
        \cup [name : {"getContributors"}, ok : {FALSE}, authorOutput : {<<>>}]

\* What git diff and git show print for one file: nothing, a short text, a text
\* of exactly DefaultMaxLines lines and one of DefaultMaxLines + 1 lines.
GitOutputs ==
  LET blank(n) == [i \in 1..n |-> NL]
  IN  { <<>>, <<"o", "l", "d">>,
        <<"a">> \o blank(DefaultMaxLines - 1) \o <<"z">>,
        <<"a">> \o blank(DefaultMaxLines) \o <<"z">> }

\* One turn of the per-file loop: the file, the diff git printed and the content
\* git show printed, '' for an added file and when git show failed.
EntryCalls ==
  LET entries == { <<"M", "f", "f">>, <<"A", "f", "f">>, <<"D", "f", "f">>, <<"R", "f", "g">> }
      contents(status) == IF needsOriginalContent(status) THEN GitOutputs ELSE {<<>>}
  IN  UNION { [name : {"changedFileEntry"},
               file : {[status |-> <<e[1]>>, path |-> <<e[2]>>, oldPath |-> <<e[3]>>]},
               rawDiff : GitOutputs, rawContent : contents(<<e[1]>>)] : e \in entries }

UnitInit ==
  /\ \/ call \in TruncateCalls
     \/ call \in ParseCalls
     \/ call \in NormalizeCalls
     \/ call \in IgnoreCalls
     \/ call \in ContributorCalls
     \/ call \in EntryCalls
  /\ returned = UNDEF
  /\ pc = "call"
  /\ fn = "none"
  /\ targetBranch = NULL
  /\ ignorePatterns = [isNull |-> TRUE, items |-> <<>>]
  /\ mode = "unstaged"
  /\ includeUntracked = FALSE
  /\ stagedStatus = <<>>
  /\ unstagedStatus = <<>>
  /\ untrackedFiles = <<>>
  /\ Fresh
  /\ NoProcess

Call_truncateContent ==
  /\ pc = "call"
  /\ call.name = "truncateContent"
  /\ returned' = truncateContent(call.content, call.maxLines)
  /\ pc' = "returned"
  /\ UNCHANGED <<arguments, repository, kk, call, locals>>

Call_parseNameStatus ==
  /\ pc = "call"
  /\ call.name = "parseNameStatus"
  /\ returned' = parseNameStatus(call.output)
  /\ pc' = "returned"
  /\ UNCHANGED <<arguments, repository, kk, call, locals>>

Call_normalizeRepoUrl ==
  /\ pc = "call"
  /\ call.name = "normalizeRepoUrl"
  /\ returned' = normalizeRepoUrl(call.url)
  /\ pc' = "returned"
  /\ UNCHANGED <<arguments, repository, kk, call, locals>>

Call_shouldIgnoreFile ==
  /\ pc = "call"
  /\ call.name = "shouldIgnoreFile"
  /\ returned' = shouldIgnoreFile(call.filePath, call.patterns)
  /\ pc' = "returned"
  /\ UNCHANGED <<arguments, repository, kk, call, locals>>

Call_getContributors ==
  /\ pc = "call"
  /\ call.name = "getContributors"
  /\ returned' = IF call.ok THEN contributorsFromLog(call.authorOutput)
                 ELSE EmptyContributors
  /\ pc' = "returned"
  /\ UNCHANGED <<arguments, repository, kk, call, locals>>

Call_changedFileEntry ==
  /\ pc = "call"
  /\ call.name = "changedFileEntry"
  /\ returned' = changedFileEntry(call.file, call.rawDiff, call.rawContent)
  /\ pc' = "returned"
  /\ UNCHANGED <<arguments, repository, kk, call, locals>>

UnitNext ==
  \/ Call_truncateContent
  \/ Call_parseNameStatus
  \/ Call_normalizeRepoUrl
  \/ Call_shouldIgnoreFile
  \/ Call_getContributors
  \/ Call_changedFileEntry

UnitSpec == UnitInit /\ [][UnitNext]_vars

\* ------------------------------------------------------------------------
\* Properties of the kk command line
\* ------------------------------------------------------------------------

Exited == pc = "exited"

\* The uncommitted analysis ran every command with success and found an empty
\* listing: nothing to review.
NothingToReview ==
  /\ fn = "runUncommittedReview"
  /\ Len(cmds) = 4
  /\ \A i \in CmdIndex : cmds[i].ok
  /\ Blank(nameStatusOutput)

\* A git command of the uncommitted analysis failed.
GitFailed ==
  /\ fn = "runUncommittedReview"
  /\ \E i \in CmdIndex : ~cmds[i].ok
  /\ result.kind = "null"

AnalysisFailureLine == Log("No changes found or error occurred during analysis.")

\* C11 as stated: a kk uncommitted-review command that finds nothing to review
\* ends with a clean exit status, unlike one whose analysis failed on a git command.
C11_AsStated ==
  (Exited /\ cli.name \in UncommittedCommands /\ NothingToReview) => exitCode = 0

\* C11, amended: a kk uncommitted-review command that finds nothing to review ends
\* exactly as one whose analysis failed on a git command: the analysis returns
\* null, the handler logs one line naming both cases to stderr, writes nothing to
\* stdout, sends no request, and the process exits with status 1.
C11_NoChangesExitsWithFailure ==
  (Exited /\ cli.name \in UncommittedCommands /\ (NothingToReview \/ GitFailed)) =>
    /\ result.kind = "null"
    /\ exitCode = 1
    /\ io[Len(io)] = AnalysisFailureLine
    /\ \A i \in 1..Len(io) : io[i].stream = "stderr"

\* kk review-staged on a repository with nothing staged has exited.
C11_Witness ==
  /\ Exited
  /\ cli.name = "review-staged"
  /\ NothingToReview
  /\ stagedStatus = <<>>
  /\ exitCode = 1

\* ------------------------------------------------------------------------
\* Properties of the payload's entries
\* ------------------------------------------------------------------------

Entries == Payload.changed_files

UnitReturned(name) == pc = "returned" /\ call.name = name

\* The k-th tab-separated field of a line, undefined when the line has fewer.
Field(line, k) == At(Split(line, <<TAB>>), k)

\* C13: parseNameStatus returns one record per non-empty line of its input, in
\* input order; a line whose status code starts with R or C gives status R or C
\* without the score, oldPath its second field and path its third; any other line
\* gives its first field as status and its second field as both path and oldPath;
\* the empty string gives the empty list.
C13_OneRecordPerLine ==
  UnitReturned("parseNameStatus") =>
    LET lines == SelectSeq(Split(call.output, <<NL>>), LAMBDA l : Len(l) > 0)
    IN  /\ Len(returned) = Len(lines)
        /\ \A i \in 1..Len(lines) :
             LET code == Field(lines[i], 1)
             IN  IF Len(code) > 0 /\ code[1] \in {"R", "C"}
                   THEN returned[i] = [status |-> <<code[1]>>,
                                       oldPath |-> Field(lines[i], 2),
                                       path |-> Field(lines[i], 3)]
                 ELSE returned[i] = [status |-> code,
                                     oldPath |-> Field(lines[i], 2),
                                     path |-> Field(lines[i], 2)]
        /\ (call.output = <<>> => returned = <<>>)

\* A modification, a blank line and a rename with its score were parsed into two
\* records.
C13_Witness ==
  /\ UnitReturned("parseNameStatus")
  /\ call.output = StatusLines[1] \o <<NL, NL>> \o StatusLines[3]
  /\ returned = << [status |-> <<"M">>, path |-> <<"a", ".", "j", "s">>,
                    oldPath |-> <<"a", ".", "j", "s">>],
                   [status |-> <<"R">>, path |-> <<"n", ".", "j", "s">>,
                    oldPath |-> <<"o", ".", "l", "o", "c", "k">>] >>

\* The number of lines of a text: one more than its line breaks.
LineCount(text) == 1 + Cardinality({i \in 1..Len(text) : text[i] = NL})

\* C14: truncateContent returns a text of at most maxLines lines unchanged.
C14_ShortTextUnchanged ==
  (UnitReturned("truncateContent") /\ LineCount(call.content) <= call.maxLines) =>
    returned = call.content

\* A text of exactly maxLines lines came back unchanged.
C14_Witness ==
  /\ UnitReturned("truncateContent")
  /\ call.content = <<"a", NL, NL, "b">>
  /\ call.maxLines = 3
  /\ returned = call.content

\* C15: for a text of more than maxLines lines, whatever maxLines is,
\* truncateContent returns the first floor(maxLines/2) lines, a blank line, the
\* marker line, a blank line, and the last floor(maxLines/2) lines, and nothing
\* of the lines in between.
C15_HeadMarkerTail ==
  (UnitReturned("truncateContent") /\ LineCount(call.content) > call.maxLines) =>
    LET lines == Split(call.content, <<NL>>)
        n == Len(lines)
        half == call.maxLines \div 2
    IN  returned = Join([i \in 1..half |-> lines[i]], <<NL>>)
                     \o TruncationMarker
                     \o Join([i \in 1..half |-> lines[n - half + i]], <<NL>>)

\* The forms of remote URL the statements below speak of.
Hosts == {GitHubHost, GitLabHost, BitbucketHost}
Users == {<<"u">>, <<"o", ".", "r", "g">>}
Repos == {<<"r">>, <<"g", "/", "r">>, <<"r", ".", "j", "s">>}
SshForm(host, user, repo) ==
  <<"g", "i", "t", "@">> \o host \o <<":">> \o user \o <<"/">> \o repo
HttpsForm(host, user, repo) == HttpsScheme \o host \o <<"/">> \o user \o <<"/">> \o repo
AzureForm(org, project, repo) ==
  AzureSshPrefix \o org \o <<"/">> \o project \o <<"/">> \o repo
AzureHttpsForm(org, project, repo) ==
  HttpsScheme \o AzureHost \o <<"/">> \o org \o <<"/">> \o project
    \o <<"/", "_", "g", "i", "t", "/">> \o repo

\* C16: normalizeRepoUrl is idempotent: normalizing its result gives the result.
C16_Idempotent ==
  UnitReturned("normalizeRepoUrl") => normalizeRepoUrl(returned) = returned

\* C17: git@ssh.dev.azure.com:v3/ORG/PROJECT/REPO, with or without a trailing
\* .git, is rewritten to https://dev.azure.com/ORG/PROJECT/_git/REPO.
C17_AzureSshToHttps ==
  UnitReturned("normalizeRepoUrl") =>
    \A repo \in Repos, suffix \in {<<>>, DotGit} :
      call.url = AzureForm(<<"o">>, <<"p">>, repo) \o suffix =>
        returned = AzureHttpsForm(<<"o">>, <<"p">>, repo)

\* URLs of no SSH form: HTTPS URLs, an SSH URL of another host, SSH-like URLs
\* that lack the user segment or the colon, a path, the empty string.
NoSshForm(url) ==
  /\ Occurrences(url, AzureSshPrefix) = {}
  /\ \A h \in Hosts :
       \A i \in Occurrences(url, <<"g", "i", "t", "@">> \o h \o <<":">>) :
         IndexOf(url, <<"/">>, i) = 0

\* C18: for github.com, gitlab.com and bitbucket.org, git@HOST:USER/REPO and
\* git@HOST:USER/REPO.git are both rewritten to https://HOST/USER/REPO; a URL of
\* no SSH form is returned as it is but for one trailing .git, which is removed.
C18_SshToHttps ==
  UnitReturned("normalizeRepoUrl") =>
    /\ \A h \in Hosts, u \in Users, r \in Repos, suffix \in {<<>>, DotGit} :
         call.url = SshForm(h, u, r) \o suffix => returned = HttpsForm(h, u, r)
    /\ NoSshForm(call.url) =>
         /\ EndsWith(call.url, DotGit) => returned \o DotGit = call.url
         /\ ~EndsWith(call.url, DotGit) => returned = call.url

\* git@gitlab.com:o.rg/g/r.git became https://gitlab.com/o.rg/g/r.
C18_Witness ==
  /\ UnitReturned("normalizeRepoUrl")
  /\ call.url = SshForm(GitLabHost, <<"o", ".", "r", "g">>, <<"g", "/", "r">>) \o DotGit
  /\ returned = HttpsScheme \o GitLabHost
                  \o <<"/", "o", ".", "r", "g", "/", "g", "/", "r">>

\* Whether a glob matches the whole of a path: * stands for any run of characters
\* other than '/', ** for any run of characters, ? for one character, and every
\* other character for itself.
RECURSIVE GlobMatches(_, _)
GlobMatches(glob, path) ==
  IF glob = <<>> THEN path = <<>>
  ELSE IF StartsWith(glob, <<"*", "*">>)
    THEN \E k \in 0..Len(path) : GlobMatches(Drop(glob, 2), Drop(path, k))
  ELSE IF glob[1] = "*"
    THEN \E k \in 0..Len(path) :
           /\ \A j \in 1..k : path[j] # "/"
           /\ GlobMatches(Tail(glob), Drop(path, k))
  ELSE IF glob[1] = "?"
    THEN path # <<>> /\ GlobMatches(Tail(glob), Tail(path))
  ELSE path # <<>> /\ path[1] = glob[1] /\ GlobMatches(Tail(glob), Tail(path))

\* A pattern that begins with **/ also matches what the rest of it matches.
PatternMatches(glob, path) ==
  \/ GlobMatches(glob, path)
  \/ StartsWith(glob, <<"*", "*", "/">>) /\ GlobMatches(Drop(glob, 3), path)

\* C19: shouldIgnoreFile returns false for every path when there is no pattern
\* list or an empty one; otherwise it returns true exactly when one of the
\* patterns matches the whole path, from its start to its end and never a part
\* of it, a '.' of the pattern matching a '.' only.
C19_WholePathMatch ==
  UnitReturned("shouldIgnoreFile") =>
    IF call.patterns.isNull \/ call.patterns.items = <<>>
      THEN returned = FALSE
    ELSE returned = (\E i \in 1..Len(call.patterns.items) :
                       PatternMatches(call.patterns.items[i], call.filePath))

NoSlash(s) == \A i \in 1..Len(s) : s[i] # "/"

\* A call with the one pattern p.
OnlyPattern(p) == call.patterns = [isNull |-> FALSE, items |-> <<p>>]

\* C20: a single * stands for a run of characters without '/', ** for a run that
\* may hold '/': d/* matches exactly the paths made of d/ and a '/'-free rest,
\* d/** every path that begins with d/; * alone matches exactly the paths without
\* '/', ** alone every path; *.b matches exactly the '/'-free names that end in .b.
C20_StarStopsAtSlash ==
  UnitReturned("shouldIgnoreFile") =>
    /\ OnlyPattern(<<"d", "/", "*">>) =>
         (returned <=> /\ StartsWith(call.filePath, <<"d", "/">>)
                       /\ NoSlash(Drop(call.filePath, 2)))
    /\ OnlyPattern(<<"d", "/", "*", "*">>) =>
         (returned <=> StartsWith(call.filePath, <<"d", "/">>))
    /\ OnlyPattern(<<"*">>) => (returned <=> NoSlash(call.filePath))
    /\ OnlyPattern(<<"*", "*">>) => returned
    /\ OnlyPattern(<<"*", ".", "b">>) =>
         (returned <=> EndsWith(call.filePath, <<".", "b">>) /\ NoSlash(call.filePath))

\* d/* was found not to match d/e/a.b.
C20_Witness ==
  /\ UnitReturned("shouldIgnoreFile")
  /\ OnlyPattern(<<"d", "/", "*">>)
  /\ call.filePath = <<"d", "/", "e", "/", "a", ".", "b">>
  /\ returned = FALSE

\* The part of a path after its last '/', the whole path when it has none.
LastSegment(path) ==
  LET slashes == {i \in 1..Len(path) : path[i] = "/"}
  IN IF slashes = {} THEN path
     ELSE Drop(path, CHOOSE i \in slashes : \A k \in slashes : k <= i)

\* C21: a pattern that begins with **/ matches a path with and without leading
\* directories: **/*.b matches exactly the paths whose last segment ends in .b,
\* whether or not directories precede it, and **/a exactly the paths whose last
\* segment is a; each matches every path the rest of the pattern matches alone.
C21_LeadingDoubleStar ==
  UnitReturned("shouldIgnoreFile") =>
    /\ OnlyPattern(<<"*", "*", "/", "*", ".", "b">>) =>
         /\ returned <=> EndsWith(LastSegment(call.filePath), <<".", "b">>)
         /\ PatternMatches(<<"*", ".", "b">>, call.filePath) => returned
    /\ OnlyPattern(<<"*", "*", "/", "a">>) =>
         /\ returned <=> LastSegment(call.filePath) = <<"a">>
         /\ call.filePath = <<"a">> => returned
    /\ \A rest \in GlobPatterns :
         OnlyPattern(<<"*", "*", "/">> \o rest) =>
           (returned <=>
              \/ shouldIgnoreFile(call.filePath, [isNull |-> FALSE, items |-> <<rest>>])
              \/ \E k \in 1..Len(call.filePath) :
                   /\ call.filePath[k] = "/"
                   /\ shouldIgnoreFile(Drop(call.filePath, k),
                                       [isNull |-> FALSE, items |-> <<rest>>]))

\* **/*.b was found to match a.b, which has no directory.
C21_Witness ==
  /\ UnitReturned("shouldIgnoreFile")
  /\ OnlyPattern(<<"*", "*", "/", "*", ".", "b">>)
  /\ call.filePath = <<"a", ".", "b">>
  /\ returned = TRUE

\* The lines of the author log, and the email and the name a line carries.
LogLines == SelectSeq(Split(call.authorOutput, <<NL>>), LAMBDA l : Len(l) > 0)
EmailOf(line) ==
  LET bar == IndexOf(line, <<"|">>, 1) IN IF bar = 0 THEN line ELSE SubSeq(line, 1, bar - 1)
NameOf(line) ==
  LET bar == IndexOf(line, <<"|">>, 1) IN IF bar = 0 THEN <<>> ELSE Drop(line, bar)
Carrying(email) == {i \in 1..Len(LogLines) : EmailOf(LogLines[i]) = email}
FirstCarrying(email) == CHOOSE i \in Carrying(email) : \A k \in Carrying(email) : i <= k
LastCarrying(email) == CHOOSE i \in Carrying(email) : \A k \in Carrying(email) : k <= i

\* C22: getContributors returns one contributor per distinct author email of the
\* log, with as many commits as lines carry that email, most commits first and
\* contributors with as many commits in the order their emails first occur;
\* author_email and author_name are those of the first contributor; an empty
\* range, like a failed log, gives null, null and no contributor.
C22_OneContributorPerEmail ==
  UnitReturned("getContributors") =>
    LET cs == returned.contributors
        emails == {EmailOf(LogLines[i]) : i \in 1..Len(LogLines)} \ {<<>>}
    IN  /\ Len(cs) = Cardinality(emails)
        /\ {cs[i].email : i \in 1..Len(cs)} = emails
        /\ \A i \in 1..Len(cs) : cs[i].commits = Cardinality(Carrying(cs[i].email))
        /\ \A i, j \in 1..Len(cs) :
             i < j => \/ cs[i].commits > cs[j].commits
                      \/ /\ cs[i].commits = cs[j].commits
                         /\ FirstCarrying(cs[i].email) < FirstCarrying(cs[j].email)
        /\ IF cs = <<>>
             THEN returned.author_email = NULL /\ returned.author_name = NULL
           ELSE /\ returned.author_email = cs[1].email
                /\ returned.author_name = cs[1].name
        /\ (call.authorOutput = <<>> \/ ~call.ok) => returned = EmptyContributors

\* b@x, met after c@x and with as many commits, comes second; a@x has one commit.
C22_Witness ==
  /\ UnitReturned("getContributors")
  /\ Len(LogLines) = 3
  /\ Len(returned.contributors) = 3
  /\ returned.contributors[1].email = <<"c", "@", "x">>
  /\ returned.contributors[2].email = <<"b", "@", "x">>
  /\ returned.contributors[3].email = <<"a", "@", "x">>
  /\ returned.author_name = <<"c", "@", "x">>

\* C23 as stated: a contributor bears the name of the last log line that carries
\* the email, and the email itself when that name is blank.
C23_LastNameSeen ==
  UnitReturned("getContributors") =>
    \A i \in 1..Len(returned.contributors) :
      LET c == returned.contributors[i]
          seen == NameOf(LogLines[LastCarrying(c.email)])
      IN  c.name = IF seen = <<>> THEN c.email ELSE seen

\* C23, amended: a contributor bears the name of the first log line that carries
\* the email, and the email itself when that name is blank; later lines with the
\* same email change the commit count only.
C23_FirstNameSeen ==
  UnitReturned("getContributors") =>
    \A i \in 1..Len(returned.contributors) :
      LET c == returned.contributors[i]
          seen == NameOf(LogLines[FirstCarrying(c.email)])
      IN  c.name = IF seen = <<>> THEN c.email ELSE seen

\* a@x committed as An and then as Al: the contributor is named An.
C23_Witness ==
  /\ UnitReturned("getContributors")
  /\ Len(LogLines) = 2
  /\ NameOf(LogLines[1]) = <<"A", "n">>
  /\ NameOf(LogLines[2]) = <<"A", "l">>
  /\ Len(returned.contributors) = 1
  /\ returned.contributors[1].name = <<"A", "n">>
  /\ returned.contributors[1].commits = 2

\* What the process has written so far, per kind.
Written(event) == \E i \in 1..Len(io) : io[i] = event
Prompted == Written(Output("Proceed with AI review? (Y/n): "))
Posted == Written(Request("POST"))
StdoutLines == SelectSeq(io, LAMBDA e : e.stream = "stdout")

\* C24: with --dry-run, on kk review and on the three uncommitted-review
\* commands, the process never sends a request, never shows the confirmation
\* prompt and never waits for an answer or a response, whatever --json and the
\* ticket system are; when the analysis gave a payload it ends having printed it.
C24_DryRunSendsNothing ==
  cli.dryRun =>
    /\ ~Posted
    /\ ~Prompted
    /\ pc \notin {"K_confirm", "K_post"}
    /\ (Exited /\ result.kind = "payload") =>
         /\ Written(Log("displayPayload"))
         /\ exitCode = 0

\* kk review --dry-run, without --json, ends after printing the payload.
C24_Witness ==
  /\ Exited
  /\ cli.dryRun
  /\ ~cli.json
  /\ cli.name = "review"
  /\ result.kind = "payload"
  /\ Written(Log("displayPayload"))
  /\ ~Posted

\* C25: with --json and without --dry-run the confirmation prompt is never
\* shown; a process that ends after the analysis gave a payload has written
\* exactly one line to stdout, the response with status 0 or the error object
\* with status 1; nothing else is ever written to stdout.
C25_JsonWritesOneDocument ==
  (cli.json /\ ~cli.dryRun) =>
    /\ ~Prompted
    /\ pc # "K_confirm"
    /\ \A i \in 1..Len(StdoutLines) :
         StdoutLines[i].text \in {"response.data", "formatErrorOutput"}
    /\ ~Exited => StdoutLines = <<>>
    /\ (Exited /\ result.kind = "payload") =>
         \/ StdoutLines = <<Output("response.data")>> /\ exitCode = 0
         \/ StdoutLines = <<Output("formatErrorOutput")>> /\ exitCode = 1
    /\ (Exited /\ result.kind # "payload") => StdoutLines = <<>> /\ exitCode = 1

\* kk review-staged --json whose request failed: the error object, status 1.
C25_Witness ==
  /\ Exited
  /\ cli.json
  /\ ~cli.dryRun
  /\ cli.name = "review-staged"
  /\ result.kind = "payload"
  /\ Posted
  /\ StdoutLines = <<Output("formatErrorOutput")>>
  /\ exitCode = 1

\* C26: the entry pushed for a file carries as content the pre-change content
\* passed through truncateContent, so cut when it has more than DefaultMaxLines
\* lines; its diff is passed through truncateContent for status D only, and is
\* the output of git diff, however long, for every other status.
C26_DiffCutForDeletedOnly ==
  UnitReturned("changedFileEntry") =>
    /\ returned.content = truncateContent(call.rawContent, DefaultMaxLines)
    /\ LineCount(call.rawContent) > DefaultMaxLines =>
         /\ returned.content # call.rawContent
         /\ LineCount(returned.content) = 2 * (DefaultMaxLines \div 2) + 3
    /\ LineCount(call.rawContent) <= DefaultMaxLines => returned.content = call.rawContent
    /\ IF call.file.status = <<"D">>
         THEN returned.diff = truncateContent(call.rawDiff, DefaultMaxLines)
       ELSE returned.diff = call.rawDiff
    /\ (call.file.status = <<"D">> /\ LineCount(call.rawDiff) > DefaultMaxLines) =>
         returned.diff # call.rawDiff

\* A modified file whose diff and content both have DefaultMaxLines + 1 lines:
\* the content is cut, the diff is not.
C26_Witness ==
  /\ UnitReturned("changedFileEntry")
  /\ call.file.status = <<"M">>
  /\ LineCount(call.rawDiff) = DefaultMaxLines + 1
  /\ LineCount(call.rawContent) = DefaultMaxLines + 1
  /\ returned.diff = call.rawDiff
  /\ returned.content # call.rawContent

\* The git commands issued about a file, in the order of their issue.
FileCmds == SelectSeq(cmds, LAMBDA c : c.file > 0)
NonIgnoredFiles == filterIgnored(parseNameStatus(nameStatusOutput), ignorePatterns)
AsksContent(f) == NonIgnoredFiles[f].status # <<"A">>

\* C27: runLocalReview has one git command outstanding at a time, each issued
\* when the one before has completed. The commands about files form one block:
\* the diff of the first non-ignored file, its show when the file is not added,
\* then the diff of the next file, and so on in list order; an entry is pushed
\* when the commands of its file are over, so that the i-th entry of
\* changed_files is that of the i-th non-ignored file.
C27_OneCommandAtATime ==
  fn = "runLocalReview" =>
    /\ \A i \in 1..Len(FileCmds) :
         LET c == FileCmds[i] IN
           /\ c.file \in 1..Len(NonIgnoredFiles)
           /\ c.name \in {"diff -U15", "show"}
           /\ c.name = "diff -U15" => c.args[2] = NonIgnoredFiles[c.file].path
           /\ i = 1 => c.name = "diff -U15" /\ c.file = 1
           /\ i > 1 =>
                LET b == FileCmds[i - 1] IN
                  \/ /\ c.name = "show"
                     /\ b.name = "diff -U15" /\ b.ok
                     /\ c.file = b.file
                     /\ AsksContent(c.file)
                  \/ /\ c.name = "diff -U15"
                     /\ c.file = b.file + 1
                     /\ \/ b.name = "show"
                        \/ b.name = "diff -U15" /\ b.ok /\ ~AsksContent(b.file)
    /\ \A i, j, k \in CmdIndex :
         (i < j /\ j < k /\ cmds[i].file > 0 /\ cmds[k].file > 0) => cmds[j].file > 0
    /\ Len(changedFiles) =
         Cardinality({f \in 1..Len(NonIgnoredFiles) :
                        \E i \in 1..Len(FileCmds) :
                          /\ FileCmds[i].file = f
                          /\ \/ FileCmds[i].name = "show"
                             \/ FileCmds[i].ok /\ ~AsksContent(f)})
    /\ \A i \in 1..Len(changedFiles) :
         /\ changedFiles[i].path = NonIgnoredFiles[i].path
         /\ changedFiles[i].status = NonIgnoredFiles[i].status
    /\ pc \in {"L_diff", "L_show"} => Len(changedFiles) = idx - 1
    /\ pc = "L_show" => FileCmds[Len(FileCmds)].name = "diff -U15"
    /\ Returned =>
         /\ result.payload[1].changed_files = changedFiles
         /\ Len(changedFiles) = Len(NonIgnoredFiles)

\* Three files, the second of them added: diff, show, diff, diff, show.
C27_Witness ==
  /\ fn = "runLocalReview"
  /\ Returned
  /\ Len(NonIgnoredFiles) = 3
  /\ Len(FileCmds) = 5
  /\ FileCmds[3].name = "diff -U15" /\ FileCmds[3].file = 2
  /\ FileCmds[4].name = "diff -U15" /\ FileCmds[4].file = 3
  /\ FileCmds[5].name = "show" /\ FileCmds[5].file = 3
  /\ Len(result.payload[1].changed_files) = 3

\* The paths of a name-status listing.
ListedPaths(listing) ==
  {parseNameStatus(listing)[i].path : i \in 1..Len(parseNameStatus(listing))}

\* C28: in mode 'all' the entry of a file with both staged and unstaged changes
\* carries its staged diff, so the staged diff of that file has been asked for.
C28_StagedDiffFirst ==
  (fn = "runUncommittedReview" /\ mode = "all" /\ Returned) =>
    \A p \in ListedPaths(stagedStatus) \cap ListedPaths(unstagedStatus) :
      /\ \E i \in 1..Len(Payload.changed_files) : Payload.changed_files[i].path = p
      /\ \E k \in CmdIndex :
           /\ cmds[k].name = "diff --cached -U15 --"
           /\ cmds[k].args = <<p>>

\* text.split('\n').map(line => '+' + line).join('\n')
AddedLines(text) ==
  LET lines == Split(text, <<NL>>)
  IN  Join([i \in 1..Len(lines) |-> <<"+">> \o lines[i]], <<NL>>)

\* C29: a call that asks for untracked files returns an entry with status A, no
\* content and the file's lines as additions for every untracked file, once.
C29_UntrackedFilesAdded ==
  (fn = "runUncommittedReview" /\ includeUntracked /\ Finished
     /\ untrackedFiles # <<>> /\ \A k \in CmdIndex : cmds[k].ok) =>
    /\ Returned
    /\ Cardinality({i \in 1..Len(Payload.changed_files) :
                      Payload.changed_files[i].path = untrackedFiles}) = 1
    /\ \A i \in 1..Len(Payload.changed_files) :
         Payload.changed_files[i].path = untrackedFiles =>
           /\ Payload.changed_files[i].status = <<"A">>
           /\ Payload.changed_files[i].content = <<>>
           /\ Payload.changed_files[i].diff = AddedLines(WorkingCopy)

====
